---- MODULE Spec2Model ----
(***************************************************************************)
(* neoclaw: the cancellable queue, the message bus built from it, the      *)
(* consolidation pipeline, the session window of the orchestrator and the  *)
(* per-key dispatch loop, as state machines.                               *)
(*                                                                         *)
(*   SpecQueue     one AsyncQueue driven by push / pop / close             *)
(*   Spec          mainLoop + NeovateAgent.processMessage +                *)
(*                 ConsolidationService over two conversation keys         *)
(*   SpecOrder     the same machine fed ordinary messages and /stop        *)
(*   SpecFallback  consolidateWithTimeout on one batch of stored entries   *)
(*   SpecCalls     three messages whose window checks all call             *)
(*                 ConsolidationService.consolidate                        *)
(*   SpecBatch     window checks with and without entries to consolidate,  *)
(*                 and consolidation of a given batch, empty or not        *)
(*   SpecBus       both bus queues, mainLoop and dispatchLoop up to and    *)
(*                 after ChannelManager.stop()                             *)
(*   SpecStore     SessionManager on one key: log file and cache           *)
(*   SpecKeys      SessionManager on several keys and their log files      *)
(*   SpecParse     ConsolidationService.parseResponse on bounded responses *)
(*   SpecCron      CronService: jobs, the timers map and the pending       *)
(*                 timers of the event loop                                *)
(***************************************************************************)
EXTENDS Integers, Sequences, FiniteSets, TLC

VARIABLES
    \* ---- AsyncQueue under test (SpecQueue) ----
    queue,        \* [buffer, waiters, closed]: the fields of one AsyncQueue
    pushLog,      \* items accepted by push(), in call order
    pops,         \* pops[n]: what the n-th pop() call has returned so far
    qHist,        \* [dropped, popsAtClose, closes]: call counters
    \* ---- orchestrator (Spec, SpecFallback) ----
    inbound,      \* bus.inbound: an AsyncQueue of InboundMessage
    mainPc,       \* mainLoop: "waiting" (suspended in consumeInbound) or "ready"
    published,    \* number of publishInbound calls made by the adapters
    task,         \* task[t]: the processMsg call of the t-th consumed message
    running,      \* mainLoop's map key -> tail promise (task id, 0 = no entry)
    sessions,     \* SessionManager cache: key -> [messages, lastConsolidated]
    handles,      \* NeovateAgent.sessions: key -> live SDK session (0 = none)
    memory,       \* MEMORY.md
    history,      \* HISTORY.md, one record per appended entry
    rotated,      \* HISTORY-YYYY-MM.md
    cqueue,       \* ConsolidationService.queue
    draining,     \* ConsolidationService.draining
    inFlight,     \* doConsolidate calls started and not yet settled
    outbound,     \* messages passed to bus.publishOutbound, in order
    \* ---- message bus shutdown (SpecBus) ----
    outq,         \* bus.outbound: an AsyncQueue of OutboundMessage
    dispPc,       \* dispatchLoop: [pc, msg], where it stands and its msg
    cmRunning,    \* ChannelManager.running
    sent,         \* messages passed to a channel's send(), in order
    stops,        \* number of ChannelManager.stop() calls
    failed,       \* ids of the messages whose send() threw or rejected
    \* ---- session store (SpecStore) ----
    disk,         \* the session log file of the key: [exists, lines]
    cache,        \* SessionManager.cache entry of the key, or NoSession
    clock,        \* the time new Date() returns
    lastOp,       \* the SessionManager call made last, with its argument
    \* ---- session store over several keys (SpecKeys) ----
    files,        \* sessionsDir: file path -> [exists, lines]
    stores,       \* SessionManager.cache: key -> session, or NoSession
    keyOp,        \* the SessionManager call made last: [op, key, n]
    \* ---- response parser (SpecParse) ----
    response,     \* the trimmed text promptFn answered, as a token sequence
    parsed,       \* what parseResponse returned for it, or NotParsed
    \* ---- cron service (SpecCron) ----
    cronJobs,     \* CronService.jobs: job id -> [status, type, enabled]
    timers,       \* CronService.timers: job id -> timer handle, or NoTimer
    pending,      \* the timers set with setTimeout, neither fired nor cleared
    cronRunning,  \* CronService.running
    cronLog       \* [n, fired]: calls and firings so far, and the jobs fired

queueVars == <<queue, pushLog, pops, qHist>>
agentVars == <<inbound, mainPc, published, task, running, sessions, handles,
               memory, history, rotated, cqueue, draining, inFlight, outbound>>
busVars == <<outq, dispPc, cmRunning, sent, stops, failed>>
storeVars == <<disk, cache, clock, lastOp>>
keyVars == <<files, stores, keyOp>>
parseVars == <<response, parsed>>
cronVars == <<cronJobs, timers, pending, cronRunning, cronLog>>
vars == <<queue, pushLog, pops, qHist, inbound, mainPc, published, task,
          running, sessions, handles, memory, history, rotated, cqueue,
          draining, inFlight, outbound, outq, dispPc, cmRunning, sent, stops, failed,
          disk, cache, clock, lastOp, files, stores, keyOp, response, parsed,
          cronJobs, timers, pending, cronRunning, cronLog>>

(***************************************************************************)
(* Bounds of the model.                                                    *)
(***************************************************************************)
MaxPush == 3        \* push() calls on the queue under test
MaxPop == 4         \* pop() calls on the queue under test
MaxClose == 2       \* close() calls on the queue under test

(***************************************************************************)
(* AsyncQueue (src/bus/async-queue.ts).  A queue is a record               *)
(* [buffer, waiters, closed]; a waiter is the id of the suspended pop().   *)
(***************************************************************************)
NoWaiter == 0

EmptyQueue == [buffer |-> <<>>, waiters |-> <<>>, closed |-> FALSE]

\* buffer.shift(): the oldest buffered item and the rest.
BufferShiftLast(buf) ==
    [item |-> buf[Len(buf)], rest |-> SubSeq(buf, 1, Len(buf) - 1)]

BufferShift(buf) == [item |-> Head(buf), rest |-> Tail(buf)]

\* push(item) that does not look at the closed flag.
QueuePushOpen(q, item) ==
    IF q.waiters # <<>>
    THEN [q |-> [q EXCEPT !.waiters = Tail(@)],
          woke |-> Head(q.waiters), dropped |-> FALSE]
    ELSE [q |-> [q EXCEPT !.buffer = Append(@, item)],
          woke |-> NoWaiter, dropped |-> FALSE]

\* push(item): the queue afterwards and the waiter that received the item.
QueuePush(q, item) ==
    IF q.closed THEN [q |-> q, woke |-> NoWaiter, dropped |-> TRUE]
    ELSE IF q.waiters # <<>>
         THEN [q |-> [q EXCEPT !.waiters = Tail(@)],
               woke |-> Head(q.waiters), dropped |-> FALSE]
         ELSE [q |-> [q EXCEPT !.buffer = Append(@, item)],
               woke |-> NoWaiter, dropped |-> FALSE]

\* pop() by caller w: "undefined" when closed, the next buffered item, or the
\* caller is suspended on the waiter list.
QueuePop(q, w) ==
    IF q.closed THEN [q |-> q, tag |-> "undefined", item |-> NoWaiter]
    ELSE IF q.buffer # <<>>
         THEN [q |-> [q EXCEPT !.buffer = BufferShift(q.buffer).rest],
               tag |-> "item", item |-> BufferShift(q.buffer).item]
         ELSE [q |-> [q EXCEPT !.waiters = Append(@, w)],
               tag |-> "pending", item |-> NoWaiter]

\* close(): every pending waiter is resolved with undefined.
QueueClose(q) == [q EXCEPT !.closed = TRUE, !.waiters = <<>>]

\* "for (const waiter of this.waiters) waiter(undefined)": the suspended
\* pop() calls that close() resolves.
ClosedWaitersNone(q) == {}

ClosedWaiters(q) == {q.waiters[i] : i \in DOMAIN q.waiters}

(***************************************************************************)
(* SpecQueue: one queue, items 1, 2, 3, ... pushed in this order.          *)
(***************************************************************************)
PopResult(tag, val, via) == [tag |-> tag, val |-> val, via |-> via]

QInit ==
    /\ queue = EmptyQueue
    /\ pushLog = <<>>
    /\ pops = <<>>
    /\ qHist = [dropped |-> 0, popsAtClose |-> 0, closes |-> 0, calls |-> 0]

QPush ==
    /\ qHist.calls < MaxPush
    /\ LET item == qHist.calls + 1
           r == QueuePush(queue, item)
       IN /\ queue' = r.q
          /\ pushLog' = IF r.dropped THEN pushLog ELSE Append(pushLog, item)
          /\ pops' = IF r.woke = NoWaiter THEN pops
                     ELSE [pops EXCEPT ![r.woke] = PopResult("item", item, "waiter")]
          /\ qHist' = [qHist EXCEPT !.calls = @ + 1,
                                    !.dropped = IF r.dropped THEN @ + 1 ELSE @]

QPop ==
    /\ Len(pops) < MaxPop
    /\ LET r == QueuePop(queue, Len(pops) + 1)
       IN /\ queue' = r.q
          /\ pops' = Append(pops, PopResult(r.tag, r.item,
                                 IF r.tag = "item" THEN "buffer" ELSE "direct"))
    /\ UNCHANGED <<pushLog, qHist>>

QClose ==
    /\ qHist.closes < MaxClose
    /\ queue' = QueueClose(queue)
    /\ pops' = [n \in DOMAIN pops |->
                  IF n \in ClosedWaiters(queue)
                  THEN PopResult("undefined", NoWaiter, "close") ELSE pops[n]]
    /\ qHist' = [qHist EXCEPT !.closes = @ + 1,
                              !.popsAtClose = IF queue.closed THEN @ ELSE Len(pops)]
    /\ UNCHANGED pushLog

\* The bus outside SpecBus: the dispatcher suspended, nothing published.
BusIdle ==
    /\ outq = EmptyQueue
    /\ dispPc = [pc |-> "waiting", msg |-> [id |-> 0, channel |-> "none"]]
    /\ cmRunning = TRUE
    /\ sent = <<>>
    /\ stops = 0
    /\ failed = {}

\* The session store outside SpecStore: no file, nothing cached.
StoreIdle ==
    /\ disk = [exists |-> FALSE, lines |-> <<>>]
    /\ cache = [cached |-> FALSE]
    /\ clock = 0
    /\ lastOp = [op |-> "none", arg |-> 0, n |-> 0]

\* The keyed session store outside SpecKeys: no directory entries, no cache.
KeysIdle ==
    /\ files = <<>>
    /\ stores = <<>>
    /\ keyOp = [op |-> "none", key |-> <<>>, n |-> 0]

\* The parser outside SpecParse: no response, nothing returned.
ParseIdle ==
    /\ response = <<>>
    /\ parsed = [done |-> FALSE]

\* The cron service outside SpecCron: no jobs, not started.
CronIdle ==
    /\ cronJobs = <<>>
    /\ timers = <<>>
    /\ pending = {}
    /\ cronRunning = FALSE
    /\ cronLog = [n |-> 0, fired |-> <<>>]

AgentIdle ==
    /\ inbound = EmptyQueue
    /\ mainPc = "pop"
    /\ published = 0
    /\ task = <<>>
    /\ running = <<>>
    /\ sessions = <<>>
    /\ handles = <<>>
    /\ memory = {}
    /\ history = <<>>
    /\ rotated = <<>>
    /\ cqueue = <<>>
    /\ draining = FALSE
    /\ inFlight = {}
    /\ outbound = <<>>

QNext ==
    \/ QPush /\ UNCHANGED <<agentVars, busVars, storeVars, keyVars, parseVars, cronVars>>
    \/ QPop /\ UNCHANGED <<agentVars, busVars, storeVars, keyVars, parseVars, cronVars>>
    \/ QClose /\ UNCHANGED <<agentVars, busVars, storeVars, keyVars, parseVars, cronVars>>

QueueInit == QInit /\ AgentIdle /\ BusIdle /\ StoreIdle /\ KeysIdle /\ ParseIdle /\ CronIdle

SpecQueue == QueueInit /\ [][QNext]_vars

(***************************************************************************)
(* Claims about the AsyncQueue (checked under SpecQueue).                  *)
(***************************************************************************)

\* C9: for every sequence of push calls followed by a close(), successive
\* pop() calls return every pushed item in push order, and only the pop()
\* after the buffer is drained returns undefined, as does every later one.
\* (Here: every push came before the close and every pop after it.)
C9_PushesThenCloseThenPops ==
    (queue.closed /\ qHist.popsAtClose = 0 /\ qHist.dropped = 0)
        => \A n \in DOMAIN pops :
              IF n <= Len(pushLog)
              THEN pops[n].tag = "item" /\ pops[n].val = pushLog[n]
              ELSE pops[n].tag = "undefined"

\* C10: while the queue is open no push is refused, the n-th pop() (in call
\* order) holds the n-th pushed item or is still suspended when fewer than n
\* items were pushed, and the buffer holds exactly the items not yet popped.
C10_OpenQueueIsFifo ==
    ~queue.closed =>
        /\ Len(pushLog) = qHist.calls
        /\ \A n \in DOMAIN pops :
              IF n <= Len(pushLog)
              THEN pops[n].tag = "item" /\ pops[n].val = pushLog[n]
              ELSE pops[n].tag = "pending"
        /\ queue.buffer = SubSeq(pushLog, Len(pops) + 1, Len(pushLog))
        /\ queue.waiters = [i \in 1..(Len(pops) - Len(pushLog)) |-> Len(pushLog) + i]

\* An open queue that has delivered one item from the buffer and one to a
\* suspended pop(), with two items buffered behind an earlier pop.
C10_Witness ==
    /\ ~queue.closed
    /\ Len(pushLog) = 3
    /\ Len(pops) = 3
    /\ \E n \in DOMAIN pops : pops[n].via = "waiter"
    /\ \E n \in DOMAIN pops : pops[n].via = "buffer" /\ n > 1

\* C11: close() resolves every pop() pending at that moment with undefined
\* and leaves no waiter; on a closed queue no pop() is suspended, every
\* pop() returns undefined at once, and a further close() changes nothing.
C11_CloseReleasesEveryPop ==
    [][/\ (~queue.closed /\ queue'.closed) =>
             /\ queue'.waiters = <<>>
             /\ \A n \in DOMAIN pops :
                   IF pops[n].tag = "pending"
                   THEN pops'[n] = PopResult("undefined", NoWaiter, "close")
                   ELSE pops'[n] = pops[n]
       /\ queue.closed =>
             /\ \A n \in DOMAIN pops : pops[n].tag # "pending"
             /\ \A n \in DOMAIN pops' : pops'[n].tag # "pending"
             /\ Len(pops') > Len(pops) => pops'[Len(pops')].tag = "undefined"
             /\ qHist'.closes > qHist.closes =>
                   queue' = queue /\ pops' = pops /\ pushLog' = pushLog]_vars

\* Two pop() calls were suspended when close() came, a pop() was made
\* after it, and close() was called a second time.
C11_Witness ==
    /\ queue.closed
    /\ qHist.closes = 2
    /\ Cardinality({n \in DOMAIN pops : pops[n].via = "close"}) >= 2
    /\ Len(pops) > qHist.popsAtClose

\* C12: once closed the queue stays closed with its buffer and waiter list
\* as they are, whatever is called on it, and no pop() ever holds an item
\* whose push() came after the close.
C12_ClosedQueueIsFrozen ==
    [][/\ queue.closed =>
             /\ queue'.closed
             /\ queue'.buffer = queue.buffer
             /\ queue'.waiters = queue.waiters
             /\ pushLog' = pushLog
       /\ \A n \in DOMAIN pops' :
             pops'[n].tag = "item" =>
                \E i \in DOMAIN pushLog' : pushLog'[i] = pops'[n].val]_vars

\* A push() was refused by the closed queue and a pop() was made after it.
C12_Witness ==
    /\ queue.closed
    /\ qHist.dropped > 0
    /\ qHist.calls = MaxPush
    /\ Len(pops) > qHist.popsAtClose
    /\ pops[Len(pops)].via = "direct"

(***************************************************************************)
(* The orchestrator: conversation keys, inbound messages, stored entries.  *)
(***************************************************************************)
MaxMsgs == 2        \* publishInbound calls made by the adapters (Spec)
MaxOrderMsgs == 3   \* publishInbound calls made by the adapters (SpecOrder)
memoryWindow == 2   \* config.agent.memoryWindow of the modelled run
ShortLen == 3       \* content length of an ordinary message of the model

Keys == {"cli:a", "cli:b"}

\* Inbound contents: an ordinary message and the built-in commands.  Spec
\* sends the contents that reach consolidation, SpecOrder those that differ
\* in how mainLoop dispatches them.
Contents == {"text", "/new"}
OrderContents == {"text", "/stop"}

INTERRUPT_COMMANDS == {"/stop"}

FallbackCount == 10     \* .slice(-10)
FallbackChars == 200    \* m.content.slice(0, 200)

Min(a, b) == IF a < b THEN a ELSE b
Max(a, b) == IF a > b THEN a ELSE b

\* Array.prototype.slice(from, to) on a sequence (indices from 0, a negative
\* index counts from the end, both are clamped to the length).
SliceIndex(i, n) == IF i < 0 THEN Max(n + i, 0) ELSE Min(i, n)

Slice(s, from, to) ==
    SubSeq(s, SliceIndex(from, Len(s)) + 1, SliceIndex(to, Len(s)))

SliceFrom(s, from) == Slice(s, from, Len(s))

\* A ConversationEntry.  id stands for the text and timestamp of the entry
\* (distinct entries of a session have distinct ids), len for the length of
\* its content.
Entry(role, id, len) == [role |-> role, id |-> id, len |-> len]

\* .filter((m) => m.content): the entries whose content is not empty.
HasContent(m) == m.len > 0

WithContent(messages) == SelectSeq(messages, HasContent)

\* String.prototype.slice(0, k) of an entry's content.
Truncate(m, k) == [m EXCEPT !.len = Min(m.len, k)]

\* The lines of the [raw-fallback] entry written for a batch.
FallbackSummaryFirst(messages) ==
    LET kept == Slice(WithContent(messages), 0, FallbackCount)
    IN [i \in 1..Len(kept) |-> Truncate(kept[i], FallbackChars)]

FallbackSummary(messages) ==
    LET kept == SliceFrom(WithContent(messages), -FallbackCount)
    IN [i \in 1..Len(kept) |-> Truncate(kept[i], FallbackChars)]

\* The recap lines built from the retained entries.
Recap(remaining) == WithContent(remaining)

\* A session as SessionManager.get() builds it from a log of entries with the
\* content lengths lens and the recorded lastConsolidated.
StoredSession(lens, lc) ==
    [messages |-> [i \in 1..Len(lens) |->
                     Entry(IF i % 2 = 1 THEN "user" ELSE "assistant", i, lens[i])],
     lastConsolidated |-> lc,
     nextId |-> Len(lens) + 1]

NoResult == [hist |-> FALSE, hasMem |-> FALSE, mem |-> {}]

\* The locals of handleCommand, manageSessionWindow and consolidateWithTimeout
\* before they are set and after the functions have returned.
NoLocals ==
    [cutoff |-> 0, batch |-> <<>>, after |-> "none", seen |-> <<>>, seenLc |-> 0,
     currentMemory |-> {}, result |-> NoResult, outcome |-> "none"]

\* The processMsg call of one consumed message.  enq, timedOut, wrote,
\* trimmed and threw record what the call has done (enq: the position of its
\* consolidate() call among all such calls, 0 when it made none).
NewTask(key, content, prev, pc, hadHandle) ==
    [key |-> key, content |-> content, prev |-> prev, pc |-> pc,
     hadHandle |-> hadHandle, local |-> NoLocals, recap |-> <<>>,
     enq |-> 0, timedOut |-> FALSE, wrote |-> FALSE, trimmed |-> FALSE,
     threw |-> FALSE]

Tasks == DOMAIN task

\* bus.publishOutbound(msg) made by task t.
Out(t, kind) == [task |-> t, chat |-> task[t].key, kind |-> kind]

\* The session logs found on disk at start: empty, or one message over the
\* window, with nothing consolidated for the first key and one entry or
\* everything consolidated for the other.
InitCounts == {0, memoryWindow + 1}
InitConsolidated(n) == {1, n} \cap 0..n
FirstKey == "cli:a"

\* mainLoop has called consumeInbound() and is suspended as waiter 1.
MainWaiter == 1

\* The state after construction, stored[k] being the session log of key k.
AgentStart(stored) ==
    /\ inbound = [EmptyQueue EXCEPT !.waiters = <<MainWaiter>>]
    /\ mainPc = "waiting"
    /\ published = 0
    /\ task = <<>>
    /\ running = [k \in Keys |-> 0]
    /\ sessions = stored
    /\ handles = [k \in Keys |-> 0]
    /\ memory = {}
    /\ history = <<>>
    /\ rotated = <<>>
    /\ cqueue = <<>>
    /\ draining = FALSE
    /\ inFlight = {}
    /\ outbound = <<>>

(***************************************************************************)
(* mainLoop (src/index.ts): consume, then start at once (interrupt) or     *)
(* chain after the tail of the key.                                        *)
(***************************************************************************)
sessionKey(msg) == msg.key

\* The loop body without the INTERRUPT_COMMANDS branch: every message is
\* chained on the tail of its key.
DispatchChained(msg) ==
    LET key == sessionKey(msg)
        t == Len(task) + 1
    IN /\ task' = Append(task, NewTask(key, msg.content, running[key],
                                       "chained", FALSE))
       /\ running' = [running EXCEPT ![key] = t]

\* The loop body with one chain for all keys: every message is continued
\* from the message consumed before it.
DispatchSerial(msg) ==
    LET key == sessionKey(msg)
        t == Len(task) + 1
    IN IF msg.content \in INTERRUPT_COMMANDS
       THEN /\ task' = Append(task, NewTask(key, msg.content, 0, "stop",
                                            handles[key] # 0))
            /\ UNCHANGED running
       ELSE /\ task' = Append(task, NewTask(key, msg.content, Len(task),
                                            "chained", FALSE))
            /\ running' = [running EXCEPT ![key] = t]

\* The loop body with nothing to wait for: the message becomes the tail of
\* its key and is continued from a resolved promise.
DispatchUnchained(msg) ==
    LET key == sessionKey(msg)
        t == Len(task) + 1
    IN IF msg.content \in INTERRUPT_COMMANDS
       THEN /\ task' = Append(task, NewTask(key, msg.content, 0, "stop",
                                            handles[key] # 0))
            /\ UNCHANGED running
       ELSE /\ task' = Append(task, NewTask(key, msg.content, 0,
                                            "chained", FALSE))
            /\ running' = [running EXCEPT ![key] = t]

\* The body of the while loop for one consumed message.
Dispatch(msg) ==
    LET key == sessionKey(msg)
        t == Len(task) + 1
    IN IF msg.content \in INTERRUPT_COMMANDS
       THEN /\ task' = Append(task, NewTask(key, msg.content, 0, "stop",
                                            handles[key] # 0))
            /\ UNCHANGED running
       ELSE /\ task' = Append(task, NewTask(key, msg.content, running[key],
                                            "chained", FALSE))
            /\ running' = [running EXCEPT ![key] = t]

\* An adapter calls bus.publishInbound(msg).  A mainLoop suspended in
\* consumeInbound() receives the message, runs its loop body and calls
\* consumeInbound() again; without a waiter the message is buffered.
PublishInbound(key, content) ==
    /\ published' = published + 1
    /\ LET msg == [key |-> key, content |-> content]
           pushed == QueuePush(inbound, msg)
           popped == QueuePop(pushed.q, MainWaiter)
       IN IF pushed.woke = NoWaiter
          THEN inbound' = pushed.q /\ UNCHANGED <<task, running, mainPc>>
          ELSE /\ Dispatch(msg)
               /\ inbound' = popped.q
               /\ mainPc' = IF popped.tag = "pending" THEN "waiting" ELSE "ready"
    /\ UNCHANGED <<sessions, handles, memory, history, rotated, cqueue,
                   draining, inFlight, outbound>>

(***************************************************************************)
(* processMsg / NeovateAgent.processMessage, one action per run between    *)
(* two suspension points.                                                  *)
(***************************************************************************)
keepCount == memoryWindow \div 2

\* prev.then(...): the tail this task was chained on has settled.
PrevSettledNever(t) == TRUE

PrevSettled(t) ==
    IF task[t].prev = 0 THEN TRUE ELSE task[task[t].prev].pc = "done"

\* next.then(() => running.delete(key)), without the test that the entry
\* is still this promise.
SettleAlways(t) ==
    running' = [running EXCEPT ![task[t].key] = 0]

\* processMsg returns: next settles, and next.then(...) drops the map entry
\* when no newer message of the key was chained meanwhile.
Settle(t) ==
    running' = [running EXCEPT ![task[t].key] = IF @ = t THEN 0 ELSE @]

\* manageSessionWindow with the cutoff at keepCount instead of
\* messages.length - keepCount.
WindowLocalsCutAtKeep(session) ==
    [NoLocals EXCEPT
       !.cutoff = keepCount,
       !.batch = Slice(session.messages, session.lastConsolidated, keepCount),
       !.after = "trim",
       !.seen = session.messages,
       !.seenLc = session.lastConsolidated]

\* manageSessionWindow up to its first suspension: the window check, the
\* cutoff and the batch messages.slice(lastConsolidated, cutoff).
WindowLocals(session) ==
    LET cutoff == Len(session.messages) - keepCount
    IN [NoLocals EXCEPT
          !.cutoff = cutoff,
          !.batch = Slice(session.messages, session.lastConsolidated, cutoff),
          !.after = "trim",
          !.seen = session.messages,
          !.seenLc = session.lastConsolidated]

\* The chained continuation runs: handleCommand, then the window check of
\* manageSessionWindow.
Start(t) ==
    /\ task[t].pc = "chained"
    /\ PrevSettled(t)
    /\ LET session == sessions[task[t].key]
           count == Len(session.messages)
       IN task' = [task EXCEPT ![t] =
            IF task[t].content = "/new"
            THEN IF count > 0
                 THEN [@ EXCEPT !.pc = "cwt_read", !.prev = 0,
                                !.local = [NoLocals EXCEPT
                                             !.batch = session.messages,
                                             !.after = "reset",
                                             !.seen = session.messages,
                                             !.seenLc = session.lastConsolidated]]
                 ELSE [@ EXCEPT !.pc = "reset", !.prev = 0]
            ELSE IF count <= memoryWindow
                 THEN [@ EXCEPT !.pc = "ensure", !.prev = 0]
                 ELSE [@ EXCEPT !.pc = IF WindowLocals(session).batch # <<>>
                                       THEN "cwt_read" ELSE "trim",
                                !.prev = 0,
                                !.local = WindowLocals(session)]]
    /\ UNCHANGED <<inbound, mainPc, published, running, sessions, handles,
                   memory, history, rotated, cqueue, draining, inFlight, outbound>>

\* sessionManager.trimBefore(key, keepFrom).
TrimBeforeKeepAll(session, keepFrom) == [session EXCEPT !.lastConsolidated = 0]

TrimBefore(session, keepFrom) ==
    [session EXCEPT !.messages = SliceFrom(@, keepFrom), !.lastConsolidated = 0]

\* manageSessionWindow without the close and removal of the live SDK
\* session.
TrimKeepHandle(t) ==
    /\ task[t].pc = "trim"
    /\ LET key == task[t].key
           trimmed == TrimBefore(sessions[key], task[t].local.cutoff)
       IN /\ sessions' = [sessions EXCEPT ![key] = trimmed]
          /\ task' = [task EXCEPT ![t].pc = "ensure", ![t].trimmed = TRUE,
                                  ![t].local = NoLocals,
                                  ![t].recap = Recap(trimmed.messages)]
    /\ UNCHANGED <<inbound, mainPc, published, running, memory, history,
                   rotated, cqueue, draining, inFlight, outbound, handles>>

\* trimBefore(key, cutoff), the recap of what remains, and the disposal of
\* the key's live SDK session; manageSessionWindow returns.
Trim(t) ==
    /\ task[t].pc = "trim"
    /\ LET key == task[t].key
           trimmed == TrimBefore(sessions[key], task[t].local.cutoff)
       IN /\ sessions' = [sessions EXCEPT ![key] = trimmed]
          /\ handles' = [handles EXCEPT ![key] = 0]
          /\ task' = [task EXCEPT ![t].pc = "ensure", ![t].trimmed = TRUE,
                                  ![t].local = NoLocals,
                                  ![t].recap = Recap(trimmed.messages)]
    /\ UNCHANGED <<inbound, mainPc, published, running, memory, history,
                   rotated, cqueue, draining, inFlight, outbound>>

\* A clear that empties the list and keeps the recorded boundary.
ClearMessagesOnly(session) == [session EXCEPT !.messages = <<>>]

\* sessionManager.clear(key).
Clear(session) == [session EXCEPT !.messages = <<>>, !.lastConsolidated = 0]

\* resetSession(key) and the reply of /new.
Reset(t) ==
    /\ task[t].pc = "reset"
    /\ LET key == task[t].key
       IN /\ handles' = [handles EXCEPT ![key] = 0]
          /\ sessions' = [sessions EXCEPT ![key] = Clear(@)]
          /\ outbound' = Append(outbound, Out(t, "cleared"))
          /\ task' = [task EXCEPT ![t].pc = "done", ![t].trimmed = TRUE,
                                  ![t].local = NoLocals]
          /\ Settle(t)
    /\ UNCHANGED <<inbound, mainPc, published, memory, history, rotated,
                   cqueue, draining, inFlight>>

\* ensureSession: reuse the live SDK session of the key or create one.
EnsureSession(t) ==
    /\ task[t].pc = "ensure"
    /\ handles' = [handles EXCEPT ![task[t].key] = IF @ = 0 THEN t ELSE @]
    /\ task' = [task EXCEPT ![t].pc = "append_user", ![t].recap = <<>>]
    /\ UNCHANGED <<inbound, mainPc, published, running, sessions, memory,
                   history, rotated, cqueue, draining, inFlight, outbound>>

\* sessionManager.append(key, role, content).
SessionAppend(session, role, len) ==
    [session EXCEPT !.messages = Append(@, Entry(role, session.nextId, len)),
                    !.nextId = @ + 1]

AppendUser(t) ==
    /\ task[t].pc = "append_user"
    /\ sessions' = [sessions EXCEPT ![task[t].key] = SessionAppend(@, "user", ShortLen)]
    /\ task' = [task EXCEPT ![t].pc = "stream"]
    /\ UNCHANGED <<inbound, mainPc, published, running, handles, memory,
                   history, rotated, cqueue, draining, inFlight, outbound>>

\* The response stream ends with its final content: the assistant entry is
\* recorded and the final message yielded (when it has content).
StreamDone(t, len) ==
    /\ task[t].pc = "stream"
    /\ sessions' = [sessions EXCEPT
                      ![task[t].key] = SessionAppend(@, "assistant", len)]
    /\ outbound' = IF len > 0 THEN Append(outbound, Out(t, "final"))
                   ELSE outbound
    /\ task' = [task EXCEPT ![t].pc = "done"]
    /\ Settle(t)
    /\ UNCHANGED <<inbound, mainPc, published, handles, memory, history,
                   rotated, cqueue, draining, inFlight>>

\* processMsg without its try/catch: the rejection reaches the chained
\* promise, nothing is published and the continuations behind it never run.
EngineThrowUncaught(t) ==
    /\ task[t].pc \in {"ensure", "stream"}
    /\ task' = [task EXCEPT ![t].pc = "rejected", ![t].threw = TRUE, ![t].recap = <<>>]
    /\ UNCHANGED <<inbound, mainPc, published, running, sessions, handles, memory,
                   history, rotated, cqueue, draining, inFlight, outbound>>

\* createSession, send or the stream rejects: processMsg's catch publishes
\* the apology.
EngineThrow(t) ==
    /\ task[t].pc \in {"ensure", "stream"}
    /\ outbound' = Append(outbound, Out(t, "error"))
    /\ task' = [task EXCEPT ![t].pc = "done", ![t].threw = TRUE, ![t].recap = <<>>]
    /\ Settle(t)
    /\ UNCHANGED <<inbound, mainPc, published, sessions, handles, memory,
                   history, rotated, cqueue, draining, inFlight>>

\* /stop: the reply chosen at dispatch from this.sessions.get(key).
StopReply(t) ==
    /\ task[t].pc = "stop"
    /\ outbound' = Append(outbound,
                     Out(t, IF task[t].hadHandle THEN "stopped" ELSE "no-session"))
    /\ task' = [task EXCEPT ![t].pc = "done", ![t].hadHandle = FALSE]
    /\ UNCHANGED <<inbound, mainPc, published, running, sessions, handles,
                   memory, history, rotated, cqueue, draining, inFlight>>

(***************************************************************************)
(* ConsolidationService (src/memory/consolidation.ts) and                  *)
(* NeovateAgent.consolidateWithTimeout.  A call is named by its task.      *)
(***************************************************************************)

\* What one summarization call can come to: the promptFn rejects, or its
\* response parses to a result with or without each field.  "same" returns
\* the memory text of the prompt unchanged, the others with a memory update
\* add the facts of the batch to it.
Outcomes == {"reject", "empty", "memory", "both", "both-same"}

\* parseResponse / extractFromParsed for a response of the given class, for
\* call c whose prompt carried the memory text mem.  The memory text is the
\* set of calls whose facts it holds.
ParsedResult(outcome, c, mem) ==
    [hist |-> outcome \in {"both", "both-same", "both-blank"},
     hasMem |-> outcome \in {"memory", "both", "both-same", "both-blank"},
     mem |-> IF outcome \in {"memory", "both"} THEN mem \cup {c}
             ELSE IF outcome = "both-same" THEN mem ELSE {}]

\* The test without its comparison with the text read at call time.
MemoryGiven(result, currentMemory) == result.hasMem /\ result.mem # {}

\* result.memoryUpdate && result.memoryUpdate !== currentMemory
\* (the empty text is falsy).
MemoryChanged(result, currentMemory) ==
    result.hasMem /\ result.mem # {} /\ result.mem # currentMemory

\* One entry of ConsolidationService.queue.
Item(c, messages, currentMemory) ==
    [call |-> c, messages |-> messages, currentMemory |-> currentMemory]

\* drain(): "if (this.draining) return".
DrainBusyNever == FALSE

DrainBusy == draining

\* doConsolidate without "if (!messages.length) return {}".
StartNextPrompting(q, fl) ==
    IF q = <<>>
    THEN [queue |-> q, inFlight |-> fl, draining |-> FALSE]
    ELSE [queue |-> Tail(q),
          inFlight |-> fl \cup {[call |-> Head(q).call,
                                 llm |-> TRUE,
                                 promptMemory |-> Head(q).currentMemory]},
          draining |-> TRUE]

\* The drain loop taking the newest item (pop() instead of shift()).
StartNextLast(q, fl) ==
    IF q = <<>>
    THEN [queue |-> q, inFlight |-> fl, draining |-> FALSE]
    ELSE [queue |-> SubSeq(q, 1, Len(q) - 1),
          inFlight |-> fl \cup {[call |-> q[Len(q)].call,
                                 llm |-> q[Len(q)].messages # <<>>,
                                 promptMemory |-> q[Len(q)].currentMemory]},
          draining |-> TRUE]

\* The head of the drain loop: when the queue is empty the loop ends and
\* draining is reset; otherwise the next item is shifted and doConsolidate
\* runs up to its await of promptFn, with the item's memory text in the
\* prompt (no promptFn call for an empty batch).
StartNext(q, fl) ==
    IF q = <<>>
    THEN [queue |-> q, inFlight |-> fl, draining |-> FALSE]
    ELSE [queue |-> Tail(q),
          inFlight |-> fl \cup {[call |-> Head(q).call,
                                 llm |-> Head(q).messages # <<>>,
                                 promptMemory |-> Head(q).currentMemory]},
          draining |-> TRUE]

\* Promise.race has not settled yet: the caller still waits for its call.
AwaitingAlways(t) == task[t].pc # "done"

Awaiting(t) == task[t].pc = "cwt_wait"

\* readMemory() at the head of consolidateWithTimeout.
CwtRead(t) ==
    /\ task[t].pc = "cwt_read"
    /\ task' = [task EXCEPT ![t].pc = "cwt_call",
                            ![t].local.currentMemory = memory]
    /\ UNCHANGED <<inbound, mainPc, published, running, sessions, handles,
                   memory, history, rotated, cqueue, draining, inFlight, outbound>>

\* The number of consolidate() calls made so far.
CallsMade == Cardinality({u \in Tasks : task[u].enq > 0})

\* consolidate(messages, currentMemory): enqueue, then drain(); the caller
\* waits on the race with the timer.
CwtCall(t) ==
    /\ task[t].pc = "cwt_call"
    /\ LET q == Append(cqueue, Item(t, task[t].local.batch,
                                    task[t].local.currentMemory))
           n == IF DrainBusy
                THEN [queue |-> q, inFlight |-> inFlight, draining |-> draining]
                ELSE StartNext(q, inFlight)
       IN /\ cqueue' = n.queue
          /\ inFlight' = n.inFlight
          /\ draining' = n.draining
    /\ task' = [task EXCEPT ![t].pc = "cwt_wait", ![t].enq = CallsMade + 1]
    /\ UNCHANGED <<inbound, mainPc, published, running, sessions, handles,
                   memory, history, rotated, outbound>>

\* Where consolidateWithTimeout continues once the race is won by result.
AfterResult(t, result) ==
    IF result.hist THEN "cwt_history"
    ELSE IF MemoryChanged(result, task[t].local.currentMemory) THEN "cwt_memory"
    ELSE task[t].local.after

\* The drain loop without the try/catch around doConsolidate: a rejection
\* leaves the loop through finally, the item's promise is never settled and
\* the items behind it stay in the queue.
DrainSettleUncaught(c, outcome) ==
    /\ \E f \in inFlight :
         /\ f.call = c
         /\ f.llm \/ outcome = "empty"
         /\ LET n == IF outcome = "reject"
                     THEN [queue |-> cqueue, inFlight |-> inFlight \ {f},
                           draining |-> FALSE]
                     ELSE StartNext(cqueue, inFlight \ {f})
                result == ParsedResult(outcome, c, f.promptMemory)
            IN /\ cqueue' = n.queue
               /\ inFlight' = n.inFlight
               /\ draining' = n.draining
               /\ task' = IF ~Awaiting(c) \/ outcome = "reject" THEN task
                          ELSE [task EXCEPT ![c].pc = AfterResult(c, result),
                                            ![c].local.result = result,
                                            ![c].local.outcome = outcome]
    /\ UNCHANGED <<inbound, mainPc, published, running, sessions, handles,
                   memory, history, rotated, outbound>>

\* doConsolidate of call c settles: the item's promise is resolved or
\* rejected (which a caller that still waits receives), and the drain loop
\* goes on to the next item or ends.
DrainSettle(c, outcome) ==
    /\ \E f \in inFlight :
         /\ f.call = c
         /\ f.llm \/ outcome = "empty"
         /\ LET n == StartNext(cqueue, inFlight \ {f})
                result == ParsedResult(outcome, c, f.promptMemory)
            IN /\ cqueue' = n.queue
               /\ inFlight' = n.inFlight
               /\ draining' = n.draining
               /\ task' = IF ~Awaiting(c) THEN task
                          ELSE IF outcome = "reject"
                          THEN [task EXCEPT ![c].pc = "cwt_fallback",
                                            ![c].local.outcome = outcome]
                          ELSE [task EXCEPT ![c].pc = AfterResult(c, result),
                                            ![c].local.result = result,
                                            ![c].local.outcome = outcome]
    /\ UNCHANGED <<inbound, mainPc, published, running, sessions, handles,
                   memory, history, rotated, outbound>>

\* The timer of the race fires first: the call is abandoned.
Timeout(t) ==
    /\ task[t].pc = "cwt_wait"
    /\ task' = [task EXCEPT ![t].pc = "cwt_fallback", ![t].timedOut = TRUE]
    /\ UNCHANGED <<inbound, mainPc, published, running, sessions, handles,
                   memory, history, rotated, cqueue, draining, inFlight, outbound>>

\* One entry of the history log, written for call t.
HistoryEntry(t, kind, body) == [call |-> t, kind |-> kind, body |-> body]

\* appendHistoryRotated(result.historyEntry).
CwtHistory(t) ==
    /\ task[t].pc = "cwt_history"
    /\ history' = Append(history, HistoryEntry(t, "summary", <<>>))
    /\ rotated' = Append(rotated, HistoryEntry(t, "summary", <<>>))
    /\ task' = [task EXCEPT ![t].pc =
                  IF MemoryChanged(task[t].local.result, task[t].local.currentMemory)
                  THEN "cwt_memory" ELSE task[t].local.after]
    /\ UNCHANGED <<inbound, mainPc, published, running, sessions, handles,
                   memory, cqueue, draining, inFlight, outbound>>

\* writeMemory(result.memoryUpdate).
CwtMemory(t) ==
    /\ task[t].pc = "cwt_memory"
    /\ memory' = task[t].local.result.mem
    /\ task' = [task EXCEPT ![t].pc = task[t].local.after, ![t].wrote = TRUE]
    /\ UNCHANGED <<inbound, mainPc, published, running, sessions, handles,
                   history, rotated, cqueue, draining, inFlight, outbound>>

\* The catch branch: the [raw-fallback] entry.
CwtFallback(t) ==
    /\ task[t].pc = "cwt_fallback"
    /\ history' = Append(history,
                     HistoryEntry(t, "fallback", FallbackSummary(task[t].local.batch)))
    /\ rotated' = Append(rotated,
                     HistoryEntry(t, "fallback", FallbackSummary(task[t].local.batch)))
    /\ task' = [task EXCEPT ![t].pc = task[t].local.after]
    /\ UNCHANGED <<inbound, mainPc, published, running, sessions, handles,
                   memory, cqueue, draining, inFlight, outbound>>

(***************************************************************************)
(* Spec: adapters publish up to MaxMsgs messages and /new commands for two *)
(* keys whose stored sessions are empty or over the window.                *)
(***************************************************************************)
FinalLens == {ShortLen}

Next ==
    \/ \E k \in Keys, c \in Contents :
          published < MaxMsgs /\ PublishInbound(k, c) /\ UNCHANGED <<queueVars, busVars, storeVars, keyVars, parseVars, cronVars>>
    \/ \E t \in Tasks : Start(t) /\ UNCHANGED <<queueVars, busVars, storeVars, keyVars, parseVars, cronVars>>
    \/ \E t \in Tasks : CwtRead(t) /\ UNCHANGED <<queueVars, busVars, storeVars, keyVars, parseVars, cronVars>>
    \/ \E t \in Tasks : CwtCall(t) /\ UNCHANGED <<queueVars, busVars, storeVars, keyVars, parseVars, cronVars>>
    \/ \E t \in Tasks, o \in Outcomes : DrainSettle(t, o) /\ UNCHANGED <<queueVars, busVars, storeVars, keyVars, parseVars, cronVars>>
    \/ \E t \in Tasks : Timeout(t) /\ UNCHANGED <<queueVars, busVars, storeVars, keyVars, parseVars, cronVars>>
    \/ \E t \in Tasks : CwtHistory(t) /\ UNCHANGED <<queueVars, busVars, storeVars, keyVars, parseVars, cronVars>>
    \/ \E t \in Tasks : CwtMemory(t) /\ UNCHANGED <<queueVars, busVars, storeVars, keyVars, parseVars, cronVars>>
    \/ \E t \in Tasks : CwtFallback(t) /\ UNCHANGED <<queueVars, busVars, storeVars, keyVars, parseVars, cronVars>>
    \/ \E t \in Tasks : Trim(t) /\ UNCHANGED <<queueVars, busVars, storeVars, keyVars, parseVars, cronVars>>
    \/ \E t \in Tasks : Reset(t) /\ UNCHANGED <<queueVars, busVars, storeVars, keyVars, parseVars, cronVars>>
    \/ \E t \in Tasks : EnsureSession(t) /\ UNCHANGED <<queueVars, busVars, storeVars, keyVars, parseVars, cronVars>>
    \/ \E t \in Tasks : AppendUser(t) /\ UNCHANGED <<queueVars, busVars, storeVars, keyVars, parseVars, cronVars>>
    \/ \E t \in Tasks, len \in FinalLens : StreamDone(t, len) /\ UNCHANGED <<queueVars, busVars, storeVars, keyVars, parseVars, cronVars>>
    \/ \E t \in Tasks : EngineThrow(t) /\ UNCHANGED <<queueVars, busVars, storeVars, keyVars, parseVars, cronVars>>

Init ==
    /\ QInit
    /\ BusIdle
    /\ StoreIdle /\ KeysIdle /\ ParseIdle /\ CronIdle
    /\ \E n \in InitCounts : \E lc \in InitConsolidated(n) :
          AgentStart([k \in Keys |->
                        StoredSession([i \in 1..n |-> ShortLen],
                                      IF k = FirstKey THEN 0 ELSE lc)])

Spec == Init /\ [][Next]_vars

(***************************************************************************)
(* SpecOrder: adapters publish up to MaxOrderMsgs messages and /stop       *)
(* commands for two keys whose sessions start empty.                       *)
(***************************************************************************)
OrderNext ==
    \/ \E k \in Keys, c \in OrderContents :
          published < MaxOrderMsgs /\ PublishInbound(k, c) /\ UNCHANGED <<queueVars, busVars, storeVars, keyVars, parseVars, cronVars>>
    \/ \E t \in Tasks : Start(t) /\ UNCHANGED <<queueVars, busVars, storeVars, keyVars, parseVars, cronVars>>
    \/ \E t \in Tasks : CwtRead(t) /\ UNCHANGED <<queueVars, busVars, storeVars, keyVars, parseVars, cronVars>>
    \/ \E t \in Tasks : CwtCall(t) /\ UNCHANGED <<queueVars, busVars, storeVars, keyVars, parseVars, cronVars>>
    \/ \E t \in Tasks, o \in Outcomes : DrainSettle(t, o) /\ UNCHANGED <<queueVars, busVars, storeVars, keyVars, parseVars, cronVars>>
    \/ \E t \in Tasks : Timeout(t) /\ UNCHANGED <<queueVars, busVars, storeVars, keyVars, parseVars, cronVars>>
    \/ \E t \in Tasks : CwtHistory(t) /\ UNCHANGED <<queueVars, busVars, storeVars, keyVars, parseVars, cronVars>>
    \/ \E t \in Tasks : CwtMemory(t) /\ UNCHANGED <<queueVars, busVars, storeVars, keyVars, parseVars, cronVars>>
    \/ \E t \in Tasks : CwtFallback(t) /\ UNCHANGED <<queueVars, busVars, storeVars, keyVars, parseVars, cronVars>>
    \/ \E t \in Tasks : Trim(t) /\ UNCHANGED <<queueVars, busVars, storeVars, keyVars, parseVars, cronVars>>
    \/ \E t \in Tasks : EnsureSession(t) /\ UNCHANGED <<queueVars, busVars, storeVars, keyVars, parseVars, cronVars>>
    \/ \E t \in Tasks : AppendUser(t) /\ UNCHANGED <<queueVars, busVars, storeVars, keyVars, parseVars, cronVars>>
    \/ \E t \in Tasks, len \in FinalLens : StreamDone(t, len) /\ UNCHANGED <<queueVars, busVars, storeVars, keyVars, parseVars, cronVars>>
    \/ \E t \in Tasks : EngineThrow(t) /\ UNCHANGED <<queueVars, busVars, storeVars, keyVars, parseVars, cronVars>>
    \/ \E t \in Tasks : StopReply(t) /\ UNCHANGED <<queueVars, busVars, storeVars, keyVars, parseVars, cronVars>>

OrderInit == QInit /\ BusIdle /\ StoreIdle /\ KeysIdle /\ ParseIdle /\ CronIdle /\ AgentStart([k \in Keys |-> StoredSession(<<>>, 0)])

SpecOrder == OrderInit /\ [][OrderNext]_vars

(***************************************************************************)
(* SpecReload: SpecOrder with the configuration watcher, whose callback    *)
(* runs between any two steps of the turns in progress.                    *)
(***************************************************************************)
\* NeovateAgent.updateConfig(config): every live SDK session is closed and
\* removed from the map.  (The window size of the modelled run stays the
\* same.)
UpdateConfig ==
    /\ handles' = [k \in Keys |-> 0]
    /\ UNCHANGED <<inbound, mainPc, published, task, running, sessions, memory,
                   history, rotated, cqueue, draining, inFlight, outbound>>

ReloadNext ==
    \/ OrderNext
    \/ UpdateConfig /\ UNCHANGED <<queueVars, busVars, storeVars, keyVars, parseVars, cronVars>>

SpecReload == OrderInit /\ [][ReloadNext]_vars

(***************************************************************************)
(* SpecCalls: up to MaxCallMsgs ordinary messages for two keys whose       *)
(* stored sessions are over the window, so that every window check calls   *)
(* consolidate(); a call answers with a memory update, rejects, or is      *)
(* abandoned by its caller's timer while it stays in the service.          *)
(***************************************************************************)
MaxCallMsgs == 3

CallOutcomes == {"reject", "memory"}

CallsNext ==
    \/ \E k \in Keys :
          published < MaxCallMsgs /\ PublishInbound(k, "text") /\ UNCHANGED <<queueVars, busVars, storeVars, keyVars, parseVars, cronVars>>
    \/ \E t \in Tasks : Start(t) /\ UNCHANGED <<queueVars, busVars, storeVars, keyVars, parseVars, cronVars>>
    \/ \E t \in Tasks : CwtRead(t) /\ UNCHANGED <<queueVars, busVars, storeVars, keyVars, parseVars, cronVars>>
    \/ \E t \in Tasks : CwtCall(t) /\ UNCHANGED <<queueVars, busVars, storeVars, keyVars, parseVars, cronVars>>
    \/ \E t \in Tasks, o \in CallOutcomes : DrainSettle(t, o) /\ UNCHANGED <<queueVars, busVars, storeVars, keyVars, parseVars, cronVars>>
    \/ \E t \in Tasks : Timeout(t) /\ UNCHANGED <<queueVars, busVars, storeVars, keyVars, parseVars, cronVars>>
    \/ \E t \in Tasks : CwtMemory(t) /\ UNCHANGED <<queueVars, busVars, storeVars, keyVars, parseVars, cronVars>>
    \/ \E t \in Tasks : CwtFallback(t) /\ UNCHANGED <<queueVars, busVars, storeVars, keyVars, parseVars, cronVars>>
    \/ \E t \in Tasks : Trim(t) /\ UNCHANGED <<queueVars, busVars, storeVars, keyVars, parseVars, cronVars>>
    \/ \E t \in Tasks : EnsureSession(t) /\ UNCHANGED <<queueVars, busVars, storeVars, keyVars, parseVars, cronVars>>
    \/ \E t \in Tasks : AppendUser(t) /\ UNCHANGED <<queueVars, busVars, storeVars, keyVars, parseVars, cronVars>>
    \/ \E t \in Tasks, len \in FinalLens : StreamDone(t, len) /\ UNCHANGED <<queueVars, busVars, storeVars, keyVars, parseVars, cronVars>>

CallsInit ==
    /\ QInit
    /\ BusIdle
    /\ StoreIdle /\ KeysIdle /\ ParseIdle /\ CronIdle
    /\ AgentStart([k \in Keys |->
                     StoredSession([i \in 1..(memoryWindow + 1) |-> ShortLen], 0)])

SpecCalls == CallsInit /\ [][CallsNext]_vars

\* The promptFn call of c resolves or rejects and the drain loop continues.
Summarized(c) ==
    \E o \in CallOutcomes :
       DrainSettle(c, o) /\ UNCHANGED <<queueVars, busVars, storeVars, keyVars, parseVars, cronVars>>

\* SpecCalls in which no summarization call stays pending for ever.
SpecCallsLive ==
    SpecCalls /\ \A c \in 1..MaxCallMsgs : WF_vars(Summarized(c))

(***************************************************************************)
(* SpecBatch: ordinary messages for two keys whose stored sessions are     *)
(* over the window, the first with nothing consolidated yet (its window    *)
(* check has entries to consolidate) and the other with everything         *)
(* consolidated (its batch is empty); and consolidateWithTimeout entered   *)
(* with a given batch of zero or one entries.                              *)
(***************************************************************************)
MaxBatchMsgs == 2    \* messages published and batches given, together

\* The outcomes of a call, with the one where the third parser tier finds
\* "memory_update": "" in a response that is not valid JSON.
BatchOutcomes == Outcomes \cup {"both-blank"}

DirectBatches == {<<>>, <<Entry("user", 1, ShortLen)>>}

DirectCalls == {t \in Tasks : task[t].content = "consolidate"}

\* consolidateWithTimeout(batch) entered with the given batch.
ConsolidateDirect(batch) ==
    /\ published + Cardinality(DirectCalls) < MaxBatchMsgs
    /\ task' = Append(task,
                  [NewTask(FirstKey, "consolidate", 0, "cwt_read", FALSE)
                     EXCEPT !.local = [NoLocals EXCEPT !.batch = batch,
                                                       !.after = "done"]])
    /\ UNCHANGED <<inbound, mainPc, published, running, sessions, handles,
                   memory, history, rotated, cqueue, draining, inFlight, outbound>>

BatchNext ==
    \/ \E k \in Keys :
          published + Cardinality(DirectCalls) < MaxBatchMsgs /\ PublishInbound(k, "text") /\ UNCHANGED <<queueVars, busVars, storeVars, keyVars, parseVars, cronVars>>
    \/ \E batch \in DirectBatches : ConsolidateDirect(batch) /\ UNCHANGED <<queueVars, busVars, storeVars, keyVars, parseVars, cronVars>>
    \/ \E t \in Tasks : Start(t) /\ UNCHANGED <<queueVars, busVars, storeVars, keyVars, parseVars, cronVars>>
    \/ \E t \in Tasks : CwtRead(t) /\ UNCHANGED <<queueVars, busVars, storeVars, keyVars, parseVars, cronVars>>
    \/ \E t \in Tasks : CwtCall(t) /\ UNCHANGED <<queueVars, busVars, storeVars, keyVars, parseVars, cronVars>>
    \/ \E t \in Tasks, o \in BatchOutcomes : DrainSettle(t, o) /\ UNCHANGED <<queueVars, busVars, storeVars, keyVars, parseVars, cronVars>>
    \/ \E t \in Tasks : Timeout(t) /\ UNCHANGED <<queueVars, busVars, storeVars, keyVars, parseVars, cronVars>>
    \/ \E t \in Tasks : CwtHistory(t) /\ UNCHANGED <<queueVars, busVars, storeVars, keyVars, parseVars, cronVars>>
    \/ \E t \in Tasks : CwtMemory(t) /\ UNCHANGED <<queueVars, busVars, storeVars, keyVars, parseVars, cronVars>>
    \/ \E t \in Tasks : CwtFallback(t) /\ UNCHANGED <<queueVars, busVars, storeVars, keyVars, parseVars, cronVars>>
    \/ \E t \in Tasks : Trim(t) /\ UNCHANGED <<queueVars, busVars, storeVars, keyVars, parseVars, cronVars>>
    \/ \E t \in Tasks : EnsureSession(t) /\ UNCHANGED <<queueVars, busVars, storeVars, keyVars, parseVars, cronVars>>
    \/ \E t \in Tasks : AppendUser(t) /\ UNCHANGED <<queueVars, busVars, storeVars, keyVars, parseVars, cronVars>>
    \/ \E t \in Tasks, len \in FinalLens : StreamDone(t, len) /\ UNCHANGED <<queueVars, busVars, storeVars, keyVars, parseVars, cronVars>>

BatchInit ==
    /\ QInit
    /\ BusIdle
    /\ StoreIdle /\ KeysIdle /\ ParseIdle /\ CronIdle
    /\ AgentStart([k \in Keys |->
                     StoredSession([i \in 1..(memoryWindow + 1) |-> ShortLen],
                                   IF k = FirstKey THEN 0 ELSE memoryWindow + 1)])

SpecBatch == BatchInit /\ [][BatchNext]_vars

(***************************************************************************)
(* SpecFallback: /new on one key whose stored session holds up to          *)
(* MaxStored entries, up to MaxEmpty of them without content and one of    *)
(* them longer than the fallback's cut.                                    *)
(***************************************************************************)
MaxStored == 12     \* entries of the stored session
MaxEmpty == 2       \* stored entries with empty content

StoredLens(n, empties, long) ==
    [i \in 1..n |-> IF i \in empties THEN 0
                    ELSE IF i = long THEN FallbackChars + 1 ELSE ShortLen]

FallbackInit ==
    /\ QInit
    /\ BusIdle
    /\ StoreIdle /\ KeysIdle /\ ParseIdle /\ CronIdle
    /\ BusIdle
    /\ StoreIdle /\ KeysIdle /\ ParseIdle /\ CronIdle
    /\ \E n \in 0..MaxStored : \E empties \in SUBSET (1..n) : \E long \in {0, 1, n} :
          /\ Cardinality(empties) <= MaxEmpty
          /\ AgentStart([k \in Keys |->
                           IF k = FirstKey
                           THEN StoredSession(StoredLens(n, empties, long), 0)
                           ELSE StoredSession(<<>>, 0)])

FallbackNext ==
    \/ published < MaxMsgs /\ PublishInbound(FirstKey, "/new") /\ UNCHANGED <<queueVars, busVars, storeVars, keyVars, parseVars, cronVars>>
    \/ \E t \in Tasks : Start(t) /\ UNCHANGED <<queueVars, busVars, storeVars, keyVars, parseVars, cronVars>>
    \/ \E t \in Tasks : CwtRead(t) /\ UNCHANGED <<queueVars, busVars, storeVars, keyVars, parseVars, cronVars>>
    \/ \E t \in Tasks : CwtCall(t) /\ UNCHANGED <<queueVars, busVars, storeVars, keyVars, parseVars, cronVars>>
    \/ \E t \in Tasks, o \in Outcomes : DrainSettle(t, o) /\ UNCHANGED <<queueVars, busVars, storeVars, keyVars, parseVars, cronVars>>
    \/ \E t \in Tasks : Timeout(t) /\ UNCHANGED <<queueVars, busVars, storeVars, keyVars, parseVars, cronVars>>
    \/ \E t \in Tasks : CwtHistory(t) /\ UNCHANGED <<queueVars, busVars, storeVars, keyVars, parseVars, cronVars>>
    \/ \E t \in Tasks : CwtMemory(t) /\ UNCHANGED <<queueVars, busVars, storeVars, keyVars, parseVars, cronVars>>
    \/ \E t \in Tasks : CwtFallback(t) /\ UNCHANGED <<queueVars, busVars, storeVars, keyVars, parseVars, cronVars>>
    \/ \E t \in Tasks : Reset(t) /\ UNCHANGED <<queueVars, busVars, storeVars, keyVars, parseVars, cronVars>>

SpecFallback == FallbackInit /\ [][FallbackNext]_vars

(***************************************************************************)
(* SpecBus: the message bus between the adapters, mainLoop (src/index.ts)  *)
(* and ChannelManager.dispatchLoop, up to and after ChannelManager.stop(). *)
(* mainLoop's processMsg calls are started and not followed further; the   *)
(* replies and system messages come from PublishOutbound.                  *)
(***************************************************************************)
MaxOut == 3         \* publishOutbound calls

\* dispatchLoop's consumeOutbound() suspended as waiter 2.
DispWaiter == 2

\* msg.channel of an outbound message: a configured channel, or "system".
OutChannels == {"cli", "system"}

\* The channels of the ChannelManager's map (the enabled ones), and the
\* channels a message can name: "telegram" is not enabled.
Registered == {"cli"}
DispatchChannels == OutChannels \cup {"telegram"}

NoMsg == [id |-> 0, channel |-> "none"]

\* MessageBus.close(): both queues closed, and the suspended consumers that
\* were resolved with undefined.
BusCloseInboundOnly(inq, out) ==
    [inbound |-> QueueClose(inq), outbound |-> out, woke |-> ClosedWaiters(inq)]

BusClose(inq, out) ==
    [inbound |-> QueueClose(inq), outbound |-> QueueClose(out),
     woke |-> ClosedWaiters(inq) \cup ClosedWaiters(out)]

\* The state after construction: mainLoop and dispatchLoop have both run up
\* to their first await and are suspended in consumeInbound() and
\* consumeOutbound().
BusStart ==
    /\ outq = [EmptyQueue EXCEPT !.waiters = <<DispWaiter>>]
    /\ dispPc = [pc |-> "waiting", msg |-> NoMsg]
    /\ cmRunning = TRUE
    /\ sent = <<>>
    /\ stops = 0
    /\ failed = {}

\* bus.publishOutbound(msg): a suspended dispatchLoop receives the message.
PublishOutbound(channel) ==
    /\ LET msg == [id |-> Len(outbound) + 1, channel |-> channel]
           pushed == QueuePush(outq, msg)
       IN /\ outq' = pushed.q
          /\ outbound' = Append(outbound, [msg |-> msg, dropped |-> pushed.dropped])
          /\ dispPc' = IF pushed.woke = NoWaiter THEN dispPc
                       ELSE [pc |-> "got", msg |-> msg]
    /\ UNCHANGED <<inbound, mainPc, published, task, running, sessions, handles,
                   memory, history, rotated, cqueue, draining, inFlight,
                   cmRunning, sent, stops, failed>>

\* ChannelManager.stop(): running = false and bus.close().
Stop ==
    /\ LET closed == BusClose(inbound, outq)
       IN /\ inbound' = closed.inbound
          /\ outq' = closed.outbound
          /\ mainPc' = IF MainWaiter \in closed.woke THEN "undefined" ELSE mainPc
          /\ dispPc' = IF DispWaiter \in closed.woke
                       THEN [pc |-> "got", msg |-> NoMsg] ELSE dispPc
    /\ cmRunning' = FALSE
    /\ stops' = stops + 1
    /\ UNCHANGED <<published, task, running, sessions, handles, memory, history,
                   rotated, cqueue, draining, inFlight, outbound, sent, failed>>

\* mainLoop resumes with msg = undefined: sessionKey(msg) reads msg.channel
\* and throws a TypeError, so the promise of mainLoop is rejected.
MainLoopUndefined ==
    /\ mainPc = "undefined"
    /\ mainPc' = "crashed"
    /\ UNCHANGED <<inbound, published, task, running, sessions, handles, memory,
                   history, rotated, cqueue, draining, inFlight, outbound>>
    /\ UNCHANGED busVars

\* The head of dispatchLoop's while: "while (this.running)" and the
\* consumeOutbound() call.
LoopHead(q) ==
    IF ~cmRunning THEN [q |-> q, pc |-> [pc |-> "exited", msg |-> NoMsg]]
    ELSE LET r == QueuePop(q, DispWaiter)
         IN [q |-> r.q,
             pc |-> IF r.tag = "pending" THEN [pc |-> "waiting", msg |-> NoMsg]
                    ELSE IF r.tag = "item" THEN [pc |-> "got", msg |-> r.item]
                    ELSE [pc |-> "got", msg |-> NoMsg]]

\* The dispatch loop without "if (channel)": a message for a channel that
\* is not in the map makes channel.send throw outside the try, and the
\* promise of dispatchLoop is rejected.
DispatchResumeUnchecked ==
    /\ dispPc.pc = "got"
    /\ IF dispPc.msg = NoMsg
       THEN dispPc' = [pc |-> "exited", msg |-> NoMsg] /\ UNCHANGED <<outq, sent>>
       ELSE IF dispPc.msg.channel = "system"
       THEN /\ outq' = LoopHead(outq).q
            /\ dispPc' = LoopHead(outq).pc
            /\ UNCHANGED sent
       ELSE IF dispPc.msg.channel \notin Registered
       THEN dispPc' = [pc |-> "exited", msg |-> NoMsg] /\ UNCHANGED <<outq, sent>>
       ELSE /\ sent' = Append(sent, dispPc.msg)
            /\ dispPc' = [dispPc EXCEPT !.pc = "sending"]
            /\ UNCHANGED outq
    /\ UNCHANGED <<agentVars, cmRunning, stops, failed>>

\* dispatchLoop resumes with the value of consumeOutbound(): break on
\* undefined, skip a system message and a message whose channel is not in
\* the map, else pass the message to channel.send.
DispatchResume ==
    /\ dispPc.pc = "got"
    /\ IF dispPc.msg = NoMsg
       THEN dispPc' = [pc |-> "exited", msg |-> NoMsg] /\ UNCHANGED <<outq, sent>>
       ELSE IF dispPc.msg.channel = "system"
       THEN /\ outq' = LoopHead(outq).q
            /\ dispPc' = LoopHead(outq).pc
            /\ UNCHANGED sent
       ELSE IF dispPc.msg.channel \notin Registered
       THEN /\ outq' = LoopHead(outq).q
            /\ dispPc' = LoopHead(outq).pc
            /\ UNCHANGED sent
       ELSE /\ sent' = Append(sent, dispPc.msg)
            /\ dispPc' = [dispPc EXCEPT !.pc = "sending"]
            /\ UNCHANGED outq
    /\ UNCHANGED <<agentVars, cmRunning, stops, failed>>

\* channel.send(msg) settles without the try/catch around it: an error
\* rejects the promise of dispatchLoop.
SendDoneUncaught(ok) ==
    /\ dispPc.pc = "sending"
    /\ failed' = IF ok THEN failed ELSE failed \cup {dispPc.msg.id}
    /\ outq' = IF ok THEN LoopHead(outq).q ELSE outq
    /\ dispPc' = IF ok THEN LoopHead(outq).pc ELSE [pc |-> "exited", msg |-> NoMsg]
    /\ UNCHANGED <<agentVars, cmRunning, sent, stops>>

\* channel.send(msg) settles, ok or with an error that the catch logs; the
\* loop comes round.
SendDone(ok) ==
    /\ dispPc.pc = "sending"
    /\ failed' = IF ok THEN failed ELSE failed \cup {dispPc.msg.id}
    /\ outq' = LoopHead(outq).q
    /\ dispPc' = LoopHead(outq).pc
    /\ UNCHANGED <<agentVars, cmRunning, sent, stops>>

BusNext ==
    \/ \E k \in Keys :
          /\ published < MaxMsgs
          /\ PublishInbound(k, "text")
          /\ UNCHANGED <<queueVars, busVars, storeVars, keyVars, parseVars, cronVars>>
    \/ \E ch \in OutChannels :
          Len(outbound) < MaxOut /\ PublishOutbound(ch) /\ UNCHANGED <<queueVars, storeVars, keyVars, parseVars, cronVars>>
    \/ stops < MaxClose /\ Stop /\ UNCHANGED <<queueVars, storeVars, keyVars, parseVars, cronVars>>
    \/ MainLoopUndefined /\ UNCHANGED <<queueVars, storeVars, keyVars, parseVars, cronVars>>
    \/ DispatchResume /\ UNCHANGED <<queueVars, storeVars, keyVars, parseVars, cronVars>>
    \/ \E ok \in BOOLEAN : SendDone(ok) /\ UNCHANGED <<queueVars, storeVars, keyVars, parseVars, cronVars>>

BusInit ==
    /\ QInit
    /\ BusStart
    /\ StoreIdle /\ KeysIdle /\ ParseIdle /\ CronIdle
    /\ AgentStart([k \in Keys |-> StoredSession(<<>>, 0)])

SpecBus == BusInit /\ [][BusNext]_vars

(***************************************************************************)
(* SpecDispatch: dispatchLoop alone, fed with messages for the enabled     *)
(* channel, for "system" and for a channel that is not enabled.            *)
(***************************************************************************)
DispatchNext ==
    \/ \E ch \in DispatchChannels :
          Len(outbound) < MaxOut /\ PublishOutbound(ch) /\ UNCHANGED <<queueVars, storeVars, keyVars, parseVars, cronVars>>
    \/ DispatchResume /\ UNCHANGED <<queueVars, storeVars, keyVars, parseVars, cronVars>>
    \/ \E ok \in BOOLEAN : SendDone(ok) /\ UNCHANGED <<queueVars, storeVars, keyVars, parseVars, cronVars>>

SpecDispatch == BusInit /\ [][DispatchNext]_vars

(***************************************************************************)
(* SpecStore: SessionManager (src/session/manager.ts) on one key: the      *)
(* JSONL log file, the cache entry, and the calls get, append, clear,      *)
(* updateConsolidated and trimBefore, each run to its return.              *)
(***************************************************************************)
MaxStoreOps == 3    \* SessionManager calls made
MaxEntries == 2     \* entry lines of the log found at start

\* The log file: whether it exists, and its lines.
NoFile == [exists |-> FALSE, lines |-> <<>>]
File(lines) == [exists |-> TRUE, lines |-> lines]

NoSession == [cached |-> FALSE]

\* createdAt of the metadata line found at start; 0 stands for a metadata
\* line without createdAt.
StoredAt == 1
NoCreatedAt == 0

\* The lines of the log: JSON.stringify(meta), JSON.stringify(entry), and a
\* line JSON.parse rejects.
MetaLine(createdAt, lc) == [t |-> "meta", createdAt |-> createdAt, lc |-> lc]
EntryLine(e) == [t |-> "entry", role |-> e.role, id |-> e.id, len |-> e.len]
CorruptLine == [t |-> "corrupt"]

\* "obj as SessionEntry" of a parsed entry line.
ParsedEntry(line) == Entry(line.role, line.id, line.len)

\* The loop of get() without the try/catch around JSON.parse: the first
\* unreadable line ends the loop (the outer catch swallows the error).
RECURSIVE ParseLinesUntilCorrupt(_, _)
ParseLinesUntilCorrupt(lines, session) ==
    IF lines = <<>> \/ Head(lines).t = "corrupt" THEN session
    ELSE LET line == Head(lines)
             next ==
                 IF line.t = "meta"
                 THEN [session EXCEPT
                         !.lastConsolidated = line.lc,
                         !.createdAt = IF line.createdAt # NoCreatedAt
                                       THEN line.createdAt ELSE @]
                 ELSE [session EXCEPT
                         !.messages = Append(@, [role |-> line.role, id |-> line.id,
                                                 len |-> line.len]),
                         !.nextId = IF line.id >= @ THEN line.id + 1 ELSE @]
         IN ParseLinesUntilCorrupt(Tail(lines), next)

\* The loop of get() over the lines, from the session built so far.
RECURSIVE ParseLines(_, _)
ParseLines(lines, session) ==
    IF lines = <<>> THEN session
    ELSE LET line == Head(lines)
             next ==
                 IF line.t = "meta"
                 THEN [session EXCEPT
                         !.lastConsolidated = line.lc,
                         !.createdAt = IF line.createdAt # NoCreatedAt
                                       THEN line.createdAt ELSE @]
                 ELSE IF line.t = "entry"
                 THEN [session EXCEPT
                         !.messages = Append(@, ParsedEntry(line)),
                         !.nextId = IF line.id >= @ THEN line.id + 1 ELSE @]
                 ELSE session
         IN ParseLines(Tail(lines), next)

\* get() on a cache miss at time now: the session read from the log.
Load(log, now) ==
    LET fresh == [messages |-> <<>>, lastConsolidated |-> 0, nextId |-> 1,
                  createdAt |-> now]
    IN IF ~log.exists THEN fresh ELSE ParseLines(log.lines, fresh)

\* get(): the cached session, or the one loaded at time now.
Get(now) == IF cache # NoSession THEN cache ELSE Load(disk, now)

\* flush(): the whole file rewritten from the session.
FlushWithoutMeta(session) ==
    File(<<MetaLine(session.createdAt, 0)>> \o
         [i \in 1..Len(session.messages) |-> EntryLine(session.messages[i])])

Flush(session) ==
    File(<<MetaLine(session.createdAt, session.lastConsolidated)>> \o
         [i \in 1..Len(session.messages) |-> EntryLine(session.messages[i])])

\* The file writes of append(): the metadata line first when the file does
\* not exist, then appendFile of the entry line.
LogAppendTruncating(log, meta, line) == File(<<meta, line>>)

LogAppend(log, meta, line) ==
    IF ~log.exists THEN File(<<meta, line>>) ELSE File(Append(log.lines, line))

\* The time that may pass before a call of new Date().
Elapsed == {0, 1}

StoreOp(op, arg) == [op |-> op, arg |-> arg, n |-> lastOp.n + 1]

StoreGet ==
    /\ \E d \in Elapsed :
          /\ cache' = Get(clock + d)
          /\ clock' = clock + d
    /\ lastOp' = StoreOp("get", 0)
    /\ UNCHANGED disk

StoreAppend ==
    /\ \E d1 \in Elapsed, d2 \in Elapsed :
          LET session == Get(clock + d1)
              appended == SessionAppend(session, "user", ShortLen)
              entry == appended.messages[Len(appended.messages)]
          IN /\ cache' = appended
             /\ disk' = LogAppend(disk, MetaLine(clock + d1 + d2, 0), EntryLine(entry))
             /\ clock' = clock + d1 + d2
    /\ lastOp' = StoreOp("append", 0)

StoreClear ==
    /\ \E d \in Elapsed :
          /\ disk' = File(<<MetaLine(clock + d, 0)>>)
          /\ cache' = [messages |-> <<>>, lastConsolidated |-> 0, nextId |-> 1,
                       createdAt |-> clock + d]
          /\ clock' = clock + d
    /\ lastOp' = StoreOp("clear", 0)

StoreUpdateConsolidated(index) ==
    /\ \E d \in Elapsed :
          LET session == [Get(clock + d) EXCEPT !.lastConsolidated = index]
          IN /\ index <= Len(session.messages)
             /\ cache' = session
             /\ disk' = Flush(session)
             /\ clock' = clock + d
    /\ lastOp' = StoreOp("updateConsolidated", index)

StoreTrimBefore(keepFrom) ==
    /\ \E d \in Elapsed :
          LET session == Get(clock + d)
          IN /\ keepFrom <= Len(session.messages)
             /\ cache' = TrimBefore(session, keepFrom)
             /\ disk' = Flush(TrimBefore(session, keepFrom))
             /\ clock' = clock + d
    /\ lastOp' = StoreOp("trimBefore", keepFrom)

\* A log as earlier runs left it: the metadata line, n entry lines, and the
\* lines of corrupt unreadable (a write that was cut short).
StoredLog(createdAt, lc, n, corrupt) ==
    [i \in 1..(n + 1) |->
        IF i \in corrupt THEN CorruptLine
        ELSE IF i = 1 THEN MetaLine(createdAt, lc)
        ELSE EntryLine(Entry(IF i % 2 = 0 THEN "user" ELSE "assistant",
                             i - 1, ShortLen))]

StoreStart ==
    /\ cache = NoSession
    /\ clock = StoredAt + 1
    /\ lastOp = [op |-> "none", arg |-> 0, n |-> 0]
    /\ \/ disk = NoFile
       \/ \E n \in 0..MaxEntries, lc \in 0..MaxEntries,
             createdAt \in {NoCreatedAt, StoredAt},
             corrupt \in SUBSET (1..(MaxEntries + 1)) :
               /\ lc <= n
               /\ corrupt \subseteq 1..(n + 1)
               /\ Cardinality(corrupt) <= 1
               /\ disk = File(StoredLog(createdAt, lc, n, corrupt))

StoreNext ==
    \/ /\ lastOp.n < MaxStoreOps
       /\ StoreGet
       /\ UNCHANGED <<queueVars, agentVars, busVars, keyVars, parseVars, cronVars>>
    \/ /\ lastOp.n < MaxStoreOps
       /\ StoreAppend
       /\ UNCHANGED <<queueVars, agentVars, busVars, keyVars, parseVars, cronVars>>
    \/ /\ lastOp.n < MaxStoreOps
       /\ StoreClear
       /\ UNCHANGED <<queueVars, agentVars, busVars, keyVars, parseVars, cronVars>>
    \/ \E index \in 0..(MaxEntries + MaxStoreOps) :
          /\ lastOp.n < MaxStoreOps
          /\ StoreUpdateConsolidated(index)
          /\ UNCHANGED <<queueVars, agentVars, busVars, keyVars, parseVars, cronVars>>
    \/ \E keepFrom \in 0..(MaxEntries + MaxStoreOps) :
          /\ lastOp.n < MaxStoreOps
          /\ StoreTrimBefore(keepFrom)
          /\ UNCHANGED <<queueVars, agentVars, busVars, keyVars, parseVars, cronVars>>

StoreInit == QInit /\ AgentIdle /\ BusIdle /\ StoreStart /\ KeysIdle /\ ParseIdle /\ CronIdle

SpecStore == StoreInit /\ [][StoreNext]_vars

(***************************************************************************)
(* SessionManager over several keys (src/bus/types.ts).  A key is the      *)
(* string `${channel}:${chatId}` as a sequence of characters; the log of a *)
(* key is the file filePath(key) names.                                    *)
(***************************************************************************)
MaxKeyOps == 3      \* SessionManager calls made

\* The characters [a-zA-Z0-9_-] of the keys used here.
SafeChars == {"d", "b", "_", "-"}

\* Three conversations of the dingtalk channel ("d"): chat ids "+", "/", "b".
StoreKeys == {<<"d", ":", "+">>, <<"d", ":", "/">>, <<"d", ":", "b">>}

\* key.replace(/[^a-zA-Z0-9_-]/g, "_")
filePath(key) == [i \in DOMAIN key |-> IF key[i] \in SafeChars THEN key[i] ELSE "_"]

StorePaths == {filePath(k) : k \in StoreKeys}

\* The time new Date() returns during the call being made.
Now == StoredAt + 1 + keyOp.n

\* The Session object of a key: the loaded fields and the key.
KeyedSession(key, s) ==
    [key |-> key, messages |-> s.messages, lastConsolidated |-> s.lastConsolidated,
     nextId |-> s.nextId, createdAt |-> s.createdAt]

\* get(key): the cached session, or the one loaded from the key's file.
KeyGetSession(key) ==
    IF stores[key] # NoSession THEN stores[key]
    ELSE KeyedSession(key, Load(files[filePath(key)], Now))

KeyOp(op, key) == [op |-> op, key |-> key, n |-> keyOp.n + 1]

KeyGet(key) ==
    /\ stores' = [stores EXCEPT ![key] = KeyGetSession(key)]
    /\ keyOp' = KeyOp("get", key)
    /\ UNCHANGED files

KeyAppend(key) ==
    /\ LET appended == SessionAppend(KeyGetSession(key), "user", ShortLen)
           entry == appended.messages[Len(appended.messages)]
       IN /\ stores' = [stores EXCEPT ![key] = appended]
          /\ files' = [files EXCEPT ![filePath(key)] =
                          LogAppend(@, MetaLine(Now, 0), EntryLine(entry))]
    /\ keyOp' = KeyOp("append", key)

KeyClear(key) ==
    /\ files' = [files EXCEPT ![filePath(key)] = File(<<MetaLine(Now, 0)>>)]
    /\ stores' = [stores EXCEPT ![key] =
                     [key |-> key, messages |-> <<>>, lastConsolidated |-> 0,
                      nextId |-> 1, createdAt |-> Now]]
    /\ keyOp' = KeyOp("clear", key)

KeyTrimBefore(key, keepFrom) ==
    /\ LET session == KeyGetSession(key)
       IN /\ keepFrom <= Len(session.messages)
          /\ stores' = [stores EXCEPT ![key] = TrimBefore(session, keepFrom)]
          /\ files' = [files EXCEPT ![filePath(key)] =
                          Flush(TrimBefore(session, keepFrom))]
    /\ keyOp' = KeyOp("trimBefore", key)

\* The sessions directory as earlier runs left it, nothing loaded yet.
KeysStart ==
    /\ files \in [StorePaths -> {NoFile, File(StoredLog(StoredAt, 1, 2, {}))}]
    /\ stores = [k \in StoreKeys |-> NoSession]
    /\ keyOp = [op |-> "none", key |-> <<>>, n |-> 0]

KeysNext ==
    \/ \E k \in StoreKeys :
          /\ keyOp.n < MaxKeyOps
          /\ KeyGet(k)
          /\ UNCHANGED <<queueVars, agentVars, busVars, storeVars, parseVars, cronVars>>
    \/ \E k \in StoreKeys :
          /\ keyOp.n < MaxKeyOps
          /\ KeyAppend(k)
          /\ UNCHANGED <<queueVars, agentVars, busVars, storeVars, parseVars, cronVars>>
    \/ \E k \in StoreKeys :
          /\ keyOp.n < MaxKeyOps
          /\ KeyClear(k)
          /\ UNCHANGED <<queueVars, agentVars, busVars, storeVars, parseVars, cronVars>>
    \/ \E k \in StoreKeys, keepFrom \in 0..1 :
          /\ keyOp.n < MaxKeyOps
          /\ KeyTrimBefore(k, keepFrom)
          /\ UNCHANGED <<queueVars, agentVars, busVars, storeVars, parseVars, cronVars>>

KeysInit == QInit /\ AgentIdle /\ BusIdle /\ StoreIdle /\ KeysStart /\ ParseIdle /\ CronIdle

SpecKeys == KeysInit /\ [][KeysNext]_vars

(***************************************************************************)
(* ConsolidationService.parseResponse (part_018).  The trimmed response is *)
(* a sequence of tokens: a code-fence line, a brace, prose, or a           *)
(* "key": "value" pair whose string is a JSON string literal ("ok"), the   *)
(* empty literal ("empty") or one with an escape JSON.parse rejects        *)
(* ("bad").                                                                *)
(***************************************************************************)
MaxTokens == 5      \* tokens of a response

Pair(key, lit) == [key |-> key, lit |-> lit]

Fence == Pair("fence", "none")
Open == Pair("{", "none")
Close == Pair("}", "none")
Prose == Pair("prose", "none")

Tokens ==
    {Fence, Open, Close, Prose}
    \cup {Pair("history_entry", "ok"), Pair("history_entry", "bad"),
          Pair("memory_update", "ok"), Pair("memory_update", "empty")}

IsPair(tok) == tok.key \in {"history_entry", "memory_update"}

Responses == UNION {[1..n -> Tokens] : n \in 0..MaxTokens}

NotParsed == [done |-> FALSE]

\* A ConsolidationResult: each field undefined ("none"), the empty string
\* ("empty") or a text ("text").
Result(h, m) == [done |-> TRUE, historyEntry |-> h, memoryUpdate |-> m]

\* Strip markdown fences: the opening line, and the last line when it is
\* a fence too.
StripFence(text) ==
    IF text # <<>> /\ Head(text) = Fence
    THEN LET lines == Tail(text)
         IN IF lines # <<>> /\ lines[Len(lines)] = Fence
            THEN SubSeq(lines, 1, Len(lines) - 1) ELSE lines
    ELSE text

\* JSON.parse(text) succeeds on an object: braces around pairs whose
\* strings are valid literals.
JsonParses(text) ==
    /\ Len(text) >= 2
    /\ text[1] = Open /\ text[Len(text)] = Close
    /\ \A i \in 2..(Len(text) - 1) : IsPair(text[i]) /\ text[i].lit # "bad"

\* parsed[key] of the parsed object: the last pair of the key decides.
Property(text, key) ==
    LET at == {i \in 1..Len(text) : IsPair(text[i]) /\ text[i].key = key}
    IN IF at = {} THEN "undefined"
       ELSE text[CHOOSE i \in at : \A j \in at : j <= i].lit

\* extractFromParsed: a field is set when the property is truthy.
extractFromParsed(text) ==
    Result(IF Property(text, "history_entry") = "ok" THEN "text" ELSE "none",
           IF Property(text, "memory_update") = "ok" THEN "text" ELSE "none")

\* Tier 2: the first "{" and the "}" that brings the depth back to 0.
Depth(text, start, i) ==
    Cardinality({j \in start..i : text[j] = Open})
        - Cardinality({j \in start..i : text[j] = Close})

BraceBlock(text) ==
    LET opens == {i \in 1..Len(text) : text[i] = Open}
    IN IF opens = {} THEN <<>>
       ELSE LET start == CHOOSE i \in opens : \A j \in opens : i <= j
                ends == {i \in start..Len(text) :
                            text[i] = Close /\ Depth(text, start, i) = 0}
            IN IF ends = {} THEN <<>>
               ELSE SubSeq(text, start, CHOOSE i \in ends : \A j \in ends : i <= j)

\* Tier 3: text.match of one field's pattern, and JSON.parse of the
\* quoted match ("skip" when it throws).
FieldMatch(text, key) ==
    LET at == {i \in 1..Len(text) : IsPair(text[i]) /\ text[i].key = key}
    IN IF at = {} THEN "none"
       ELSE LET lit == text[CHOOSE i \in at : \A j \in at : i <= j].lit
            IN IF lit = "ok" THEN "text"
               ELSE IF lit = "empty" THEN "empty" ELSE "none"

\* Tier 3 recovering the fields only together.
Tier3Together(text) ==
    IF FieldMatch(text, "history_entry") = "none"
       \/ FieldMatch(text, "memory_update") = "none"
    THEN Result("none", "none")
    ELSE Result(FieldMatch(text, "history_entry"), FieldMatch(text, "memory_update"))

Tier3(text) ==
    Result(FieldMatch(text, "history_entry"), FieldMatch(text, "memory_update"))

parseResponse(raw) ==
    LET text == StripFence(raw)
    IN IF JsonParses(text) THEN extractFromParsed(text)
       ELSE IF JsonParses(BraceBlock(text)) THEN extractFromParsed(BraceBlock(text))
       ELSE Tier3(text)

Parse ==
    /\ parsed = NotParsed
    /\ parsed' = parseResponse(response)
    /\ UNCHANGED response

ParseStart ==
    /\ response \in Responses
    /\ parsed = NotParsed

ParseNext == Parse /\ UNCHANGED <<queueVars, agentVars, busVars, storeVars, keyVars, cronVars>>

ParseInit == QInit /\ AgentIdle /\ BusIdle /\ StoreIdle /\ KeysIdle /\ ParseStart /\ CronIdle

SpecParse == ParseInit /\ [][ParseNext]_vars

(***************************************************************************)
(* CronService (part_007).  A timer handle is the pair of the call that    *)
(* set it and the job its callback closes over; pending holds the handles  *)
(* the event loop will still fire.                                         *)
(***************************************************************************)
MaxCronOps == 5     \* calls and timer firings
MaxJobs == 2        \* job ids

JobIds == 1..MaxJobs
JobTypes == {"at", "every", "cron"}

NoJob == [status |-> "none", type |-> "none", enabled |-> FALSE]
NoTimer == [n |-> 0, job |-> 0]
Handle(id) == [n |-> cronLog.n + 1, job |-> id]

Listed(id) == cronJobs[id].status = "listed"

CronOp == [cronLog EXCEPT !.n = @ + 1]

\* armJob(job) sets a timer: the job is enabled.
Armed(jobs, id) == jobs[id].enabled

\* start(): running = true and armJob of every job.
CronStart ==
    /\ ~cronRunning
    /\ cronRunning' = TRUE
    /\ timers' = [id \in JobIds |->
                    IF Listed(id) /\ Armed(cronJobs, id) THEN Handle(id) ELSE timers[id]]
    /\ pending' = pending \cup {Handle(id) : id \in {i \in JobIds :
                                                       Listed(i) /\ Armed(cronJobs, i)}}
    /\ cronLog' = CronOp
    /\ UNCHANGED cronJobs

\* stop(): clearTimeout of every timer of the map, and timers.clear().
CronStop ==
    /\ cronRunning
    /\ cronRunning' = FALSE
    /\ pending' = pending \ {timers[id] : id \in JobIds}
    /\ timers' = [id \in JobIds |-> NoTimer]
    /\ cronLog' = CronOp
    /\ UNCHANGED cronJobs

\* addJob(opts): the job is pushed, saved, and armed when running.
AddJob(id, type) ==
    /\ cronJobs[id].status = "none"
    /\ \A i \in JobIds : i < id => cronJobs[i].status # "none"
    /\ cronJobs' = [cronJobs EXCEPT ![id] =
                      [status |-> "listed", type |-> type, enabled |-> TRUE]]
    /\ timers' = IF cronRunning THEN [timers EXCEPT ![id] = Handle(id)] ELSE timers
    /\ pending' = IF cronRunning THEN pending \cup {Handle(id)} ELSE pending
    /\ cronLog' = CronOp
    /\ UNCHANGED cronRunning

\* removeJob(jobId)
RemoveJob(id) ==
    /\ Listed(id)
    /\ pending' = pending \ {timers[id]}
    /\ timers' = [timers EXCEPT ![id] = NoTimer]
    /\ cronJobs' = [cronJobs EXCEPT ![id].status = "removed"]
    /\ cronLog' = CronOp
    /\ UNCHANGED cronRunning

\* pauseJob(jobId)
PauseJob(id) ==
    /\ Listed(id)
    /\ cronJobs' = [cronJobs EXCEPT ![id].enabled = FALSE]
    /\ pending' = pending \ {timers[id]}
    /\ timers' = [timers EXCEPT ![id] = NoTimer]
    /\ cronLog' = CronOp
    /\ UNCHANGED cronRunning

\* resumeJob(jobId): enabled = true, and armJob when running.
ResumeJob(id) ==
    /\ Listed(id)
    /\ cronJobs' = [cronJobs EXCEPT ![id].enabled = TRUE]
    /\ timers' = IF cronRunning THEN [timers EXCEPT ![id] = Handle(id)] ELSE timers
    /\ pending' = IF cronRunning THEN pending \cup {Handle(id)} ELSE pending
    /\ cronLog' = CronOp
    /\ UNCHANGED cronRunning

\* A pending timer fires: fireJob(job) of the job its callback holds, the
\* removal of a one-shot job, and the next timer of a repeating one.
Fire(h) ==
    /\ h \in pending
    /\ LET id == h.job
           again == cronJobs[id].type # "at" /\ cronRunning
       IN /\ cronLog' = [n |-> cronLog.n + 1,
                         fired |-> Append(cronLog.fired,
                                      [job |-> id,
                                       listed |-> Listed(id),
                                       enabled |-> cronJobs[id].enabled])]
          /\ cronJobs' = IF cronJobs[id].type = "at"
                         THEN [cronJobs EXCEPT ![id].status = "removed"]
                         ELSE cronJobs
          /\ timers' = IF cronJobs[id].type = "at"
                       THEN [timers EXCEPT ![id] = NoTimer]
                       ELSE IF again THEN [timers EXCEPT ![id] = Handle(id)]
                       ELSE timers
          /\ pending' = IF again THEN (pending \ {h}) \cup {Handle(id)}
                        ELSE pending \ {h}
    /\ UNCHANGED cronRunning

CronBegin ==
    /\ cronJobs = [id \in JobIds |-> NoJob]
    /\ timers = [id \in JobIds |-> NoTimer]
    /\ pending = {}
    /\ cronRunning = FALSE
    /\ cronLog = [n |-> 0, fired |-> <<>>]

CronNext ==
    \/ /\ cronLog.n < MaxCronOps
       /\ CronStart
       /\ UNCHANGED <<queueVars, agentVars, busVars, storeVars, keyVars, parseVars>>
    \/ /\ cronLog.n < MaxCronOps
       /\ CronStop
       /\ UNCHANGED <<queueVars, agentVars, busVars, storeVars, keyVars, parseVars>>
    \/ \E id \in JobIds, type \in JobTypes :
          /\ cronLog.n < MaxCronOps
          /\ AddJob(id, type)
          /\ UNCHANGED <<queueVars, agentVars, busVars, storeVars, keyVars, parseVars>>
    \/ \E id \in JobIds :
          /\ cronLog.n < MaxCronOps
          /\ RemoveJob(id)
          /\ UNCHANGED <<queueVars, agentVars, busVars, storeVars, keyVars, parseVars>>
    \/ \E id \in JobIds :
          /\ cronLog.n < MaxCronOps
          /\ PauseJob(id)
          /\ UNCHANGED <<queueVars, agentVars, busVars, storeVars, keyVars, parseVars>>
    \/ \E id \in JobIds :
          /\ cronLog.n < MaxCronOps
          /\ ResumeJob(id)
          /\ UNCHANGED <<queueVars, agentVars, busVars, storeVars, keyVars, parseVars>>
    \/ \E h \in pending :
          /\ cronLog.n < MaxCronOps
          /\ Fire(h)
          /\ UNCHANGED <<queueVars, agentVars, busVars, storeVars, keyVars, parseVars>>

CronInit ==
    QInit /\ AgentIdle /\ BusIdle /\ StoreIdle /\ KeysIdle /\ ParseIdle /\ CronBegin

SpecCron == CronInit /\ [][CronNext]_vars

(***************************************************************************)
(* Properties of the shutdown of the bus (checked under SpecBus).          *)
(***************************************************************************)
\* C13: once the bus is closed and the resumed consumers have run, mainLoop
\* and dispatchLoop have both left their loops without an error.
C13_LoopsExitNormally ==
    (inbound.closed /\ mainPc # "undefined" /\ dispPc.pc \notin {"got", "sending"})
        => mainPc = "exited" /\ dispPc.pc = "exited"

\* C14: when dispatchLoop has exited every outbound message the bus had
\* accepted for a channel was passed to send(), and when mainLoop has ended
\* no inbound message is left in the buffer.
C14_NoBufferedMessageLost ==
    /\ dispPc.pc = "exited" =>
          \A i \in DOMAIN outbound :
              (~outbound[i].dropped /\ outbound[i].msg.channel # "system")
                  => \E j \in DOMAIN sent : sent[j] = outbound[i].msg
    /\ mainPc \in {"exited", "crashed"} => inbound.buffer = <<>>

\* C15: the first stop() closes both queues and resolves a suspended
\* consumeInbound() and a suspended consumeOutbound() with undefined;
\* publishInbound leaves the outbound queue and its consumer as they are,
\* publishOutbound the inbound queue and its consumer.
C15_CloseReachesBothQueues ==
    [][/\ (stops = 0 /\ stops' = 1) =>
             /\ inbound'.closed /\ inbound'.waiters = <<>>
             /\ outq'.closed /\ outq'.waiters = <<>>
             /\ mainPc = "waiting" => mainPc' = "undefined"
             /\ dispPc.pc = "waiting" => dispPc' = [pc |-> "got", msg |-> NoMsg]
       /\ published' # published =>
             outq' = outq /\ dispPc' = dispPc /\ sent' = sent
       /\ outbound' # outbound =>
             inbound' = inbound /\ mainPc' = mainPc /\ task' = task]_vars

\* stop() found both consumers suspended and resolved both, after messages
\* had gone through both queues.
C15_Witness ==
    /\ stops = 1
    /\ mainPc = "undefined"
    /\ dispPc = [pc |-> "got", msg |-> NoMsg]
    /\ Len(task) > 0
    /\ Len(sent) > 0

(***************************************************************************)
(* Properties of the orchestrator and the consolidation pipeline.          *)
(***************************************************************************)
\* The entries of the history log written for call t.
EntriesOf(t) == {i \in DOMAIN history : history[i].call = t}

\* C1: whenever a task has removed entries of its session (trimBefore or
\* clear) after calling consolidate() on a non-empty batch, the history log
\* holds at least one entry written for that batch.
C1_RemovalFollowsHistoryEntry ==
    \A t \in Tasks :
        (task[t].enq > 0 /\ task[t].trimmed) => EntriesOf(t) # {}

\* C2: of two non-interrupt messages of one key, the later one does not
\* start before the processing of the earlier one has completed, its
\* outbound message published.
C2_PerSessionFifo ==
    \A t1 \in Tasks, t2 \in Tasks :
        (/\ t1 < t2
         /\ task[t1].key = task[t2].key
         /\ task[t1].content \notin INTERRUPT_COMMANDS
         /\ task[t2].content \notin INTERRUPT_COMMANDS
         /\ task[t2].pc # "chained")
        => /\ task[t1].pc = "done"
           /\ \E i \in DOMAIN outbound : outbound[i].task = t1

\* m1 threw, m2 of the same key has started, and a later message of the
\* other key completed before m1 did.
C2_Witness ==
    \E t1 \in Tasks, t2 \in Tasks, t3 \in Tasks :
        /\ t1 < t2 /\ t2 < t3
        /\ task[t1].key = task[t2].key /\ task[t3].key # task[t1].key
        /\ task[t1].content = "text" /\ task[t2].content = "text"
        /\ task[t3].content = "text"
        /\ task[t1].threw
        /\ task[t2].pc \notin {"chained", "done"}
        /\ \E i \in DOMAIN outbound, j \in DOMAIN outbound :
              i < j /\ outbound[i].task = t3 /\ outbound[i].kind = "final"
                    /\ outbound[j].task = t1

\* C3: at most one call of the summarization function is in flight.
C3_OneSummarizationInFlight ==
    Cardinality({f \in inFlight : f.llm}) <= 1

\* A summarization is in flight whose caller timed out, with another call
\* waiting in the queue.
C3_Witness ==
    /\ cqueue # <<>>
    /\ \E f \in inFlight : f.llm /\ task[f.call].timedOut

\* C4: no write of the long-term memory loses the update written by another
\* consolidation: the facts of every call that wrote remain in the memory.
C4_NoLostUpdate ==
    \A t \in Tasks : task[t].wrote => t \in memory

\* C5: a call whose response parsed to neither field has, when
\* consolidateWithTimeout returns, one fallback entry in the history log and
\* has not written the memory.
C5_ParseFailureWritesFallback ==
    \A t \in Tasks :
        (task[t].local.outcome = "empty" /\ task[t].pc = task[t].local.after)
        => /\ Cardinality(EntriesOf(t)) = 1
           /\ \A i \in EntriesOf(t) : history[i].kind = "fallback"
           /\ ~task[t].wrote

\* consolidateWithTimeout of task t has returned after its call timed out
\* or was rejected.
FailedConsolidation(t) ==
    /\ task[t].pc = task[t].local.after
    /\ task[t].timedOut \/ task[t].local.outcome = "reject"

\* The indices of the batch whose entry has content, and the k-th of them.
ContentIndices(batch) == {i \in DOMAIN batch : batch[i].len > 0}

NthContent(batch, k) ==
    CHOOSE i \in ContentIndices(batch) :
        Cardinality({j \in ContentIndices(batch) : j <= i}) = k

C7_AbandonedCallIsInert ==
    \A t \in Tasks :
        task[t].timedOut =>
            /\ task[t].pc \notin {"cwt_wait", "cwt_history", "cwt_memory"}
            /\ ~task[t].wrote
            /\ t \notin memory
            /\ Cardinality(EntriesOf(t)) <= 1
            /\ \A i \in EntriesOf(t) : history[i].kind = "fallback"

\* A call timed out, its fallback entry is written, and the abandoned call
\* has since settled (it is neither queued nor in flight).
C7_Witness ==
    \E t \in Tasks :
        /\ task[t].timedOut
        /\ EntriesOf(t) # {}
        /\ \A f \in inFlight : f.call # t
        /\ \A i \in DOMAIN cqueue : cqueue[i].call # t

\* C8: the trim of window management acts on a session over the window; the
\* batch was messages[lastConsolidated : cutoff] with cutoff = count -
\* floor(memoryWindow / 2), consolidated when not empty; the trim leaves the
\* floor(memoryWindow / 2) most recent entries in order and
\* lastConsolidated = 0.
C8_WindowOverflow ==
    [][\A t \in Tasks :
          (task[t].pc = "trim" /\ task'[t].pc = "ensure") =>
              LET key == task[t].key
                  seen == task[t].local.seen
                  n == Len(seen)
                  cutoff == n - (memoryWindow \div 2)
              IN /\ n > memoryWindow
                 /\ sessions[key].messages = seen
                 /\ task[t].local.batch =
                        SubSeq(seen, task[t].local.seenLc + 1, cutoff)
                 /\ (task[t].enq > 0) <=> (task[t].local.batch # <<>>)
                 /\ sessions'[key].messages = SubSeq(seen, cutoff + 1, n)
                 /\ Len(sessions'[key].messages) = memoryWindow \div 2
                 /\ sessions'[key].lastConsolidated = 0]_vars

\* Window management has trimmed after a timed-out consolidation, and
\* another task trimmed without consolidating (empty batch).
C8_Witness ==
    /\ \E t \in Tasks :
          /\ task[t].content = "text" /\ task[t].trimmed /\ task[t].timedOut
          /\ task[t].pc = "ensure"
          /\ Len(sessions[task[t].key].messages) = memoryWindow \div 2
    /\ \E t \in Tasks :
          task[t].content = "text" /\ task[t].trimmed /\ task[t].enq = 0

(***************************************************************************)
(* Properties of the session store (checked under SpecStore).              *)
(***************************************************************************)
\* The session a get() returns before the step, and the createdAt the log
\* records (NoCreatedAt when it records none).
SessionBefore == IF cache # NoSession THEN cache ELSE Load(disk, clock)

RecordedAt(log) == Load(log, NoCreatedAt).createdAt

\* The step is a call of op.
Called(op) == lastOp'.n # lastOp.n /\ lastOp'.op = op

\* C16: the cached session has 0 <= lastConsolidated <= messages.length.
C16_ConsolidatedWithinMessages ==
    cache # NoSession =>
        /\ 0 <= cache.lastConsolidated
        /\ cache.lastConsolidated <= Len(cache.messages)

C19_TrimThenReload ==
    [][Called("trimBefore") =>
          LET before == SessionBefore
              c == lastOp'.arg
              reloaded == Load(disk', clock')
          IN /\ reloaded.messages = SubSeq(before.messages, c + 1, Len(before.messages))
             /\ reloaded.lastConsolidated = 0
             /\ cache # NoSession => reloaded.createdAt = cache.createdAt
             /\ RecordedAt(disk) # NoCreatedAt =>
                   reloaded.createdAt = RecordedAt(disk)]_vars

\* C20: no call but clear changes the createdAt of the cached session or
\* the createdAt recorded in the log.
C20_CreatedAtIsFixed ==
    [][lastOp'.op # "clear" =>
          /\ cache # NoSession => cache'.createdAt = cache.createdAt
          /\ RecordedAt(disk) # NoCreatedAt =>
                RecordedAt(disk') = RecordedAt(disk)]_vars

\* What get(key) answers in the present state: the messages and the
\* consolidation boundary of the key's session.
SessionOf(key) ==
    [messages |-> KeyGetSession(key).messages,
     lastConsolidated |-> KeyGetSession(key).lastConsolidated]

KeyCalled(op) == keyOp'.n # keyOp.n /\ keyOp'.op = op

\* C21: after clear(key), get(key) answers a session with the same key, no
\* messages and lastConsolidated 0, the key's log holds only a fresh
\* metadata line, and the session of every other key is what it was.
C21_ClearResetsOnlyItsKey ==
    [][\A key \in StoreKeys :
          KeyCalled("clear") /\ keyOp'.key = key =>
             /\ KeyGetSession(key)'.key = key
             /\ SessionOf(key)' = [messages |-> <<>>, lastConsolidated |-> 0]
             /\ files'[filePath(key)] = File(<<MetaLine(Now, 0)>>)
             /\ \A other \in StoreKeys \ {key} :
                   SessionOf(other)' = SessionOf(other)]_vars

\* The lines of a log that JSON.parse accepts as entries, as entries, and
\* the ones it accepts as metadata.
EntryLines(log) ==
    LET IsEntry(line) == line.t = "entry"
        sel == SelectSeq(log.lines, IsEntry)
    IN [i \in 1..Len(sel) |-> Entry(sel[i].role, sel[i].id, sel[i].len)]

MetaLines(log) ==
    LET IsMeta(line) == line.t = "meta"
    IN SelectSeq(log.lines, IsMeta)

HasCorruptLine(log) == \E i \in 1..Len(log.lines) : log.lines[i].t = "corrupt"

QueuedCalls == {cqueue[i].call : i \in 1..Len(cqueue)}

StartedCalls == {f.call : f \in inFlight}

\* C23: consolidate() calls are served in the order they were made: while
\* an earlier call is queued or running no later call has left the queue,
\* and the result a caller holds carries the facts of its own call only.
C23_CallsServedInOrder ==
    /\ \A t1 \in Tasks, t2 \in Tasks :
          (0 < task[t1].enq /\ task[t1].enq < task[t2].enq /\ t2 \notin QueuedCalls)
             => t1 \notin QueuedCalls \cup StartedCalls
    /\ \A t \in Tasks :
          task[t].local.result.mem \subseteq task[t].local.currentMemory \cup {t}

\* The first call has settled, the second is running and the third,
\* queued behind it while the first was running, still waits.
C23_Witness ==
    \E t1 \in Tasks, t2 \in Tasks, t3 \in Tasks :
       /\ task[t1].enq = 1 /\ task[t2].enq = 2 /\ task[t3].enq = 3
       /\ t1 \notin QueuedCalls \cup StartedCalls
       /\ StartedCalls = {t2}
       /\ QueuedCalls = {t3}

\* Where a task stands inside consolidateWithTimeout.
CwtPcs == {"cwt_read", "cwt_call", "cwt_wait", "cwt_history", "cwt_memory",
           "cwt_fallback"}

\* C24: a call of the service with no entries never reaches promptFn and
\* resolves to the empty result; the window check of a message enters
\* consolidateWithTimeout only with entries, and a task that has made no
\* consolidate call has written neither history nor memory.
C24_EmptyBatchIsInert ==
    /\ \A f \in inFlight :
          f.call \in DirectCalls => (f.llm <=> task[f.call].local.batch # <<>>)
    /\ \A t \in DirectCalls :
          (task[t].local.batch = <<>> /\ task[t].local.outcome # "none")
             => /\ task[t].local.outcome = "empty"
                /\ task[t].local.result = NoResult
    /\ \A t \in Tasks \ DirectCalls :
          /\ task[t].pc \in CwtPcs => task[t].local.batch # <<>>
          /\ task[t].enq = 0 => (EntriesOf(t) = {} /\ ~task[t].wrote /\ t \notin memory)

\* The service has resolved a call without entries, and a message whose
\* window check found nothing to consolidate has trimmed its session.
C24_Witness ==
    /\ \E t \in DirectCalls :
          /\ task[t].local.batch = <<>>
          /\ task[t].pc = "done"
          /\ task[t].local.outcome = "empty"
    /\ \E t \in Tasks \ DirectCalls :
          task[t].key # FirstKey /\ task[t].trimmed /\ task[t].enq = 0

\* The tasks back from a consolidateWithTimeout whose call resolved, with
\* its locals still at hand.
Resolved(t) ==
    /\ task[t].local.outcome \notin {"none", "reject"}
    /\ ~task[t].timedOut
    /\ task[t].pc \notin CwtPcs

SummariesOf(t) == {i \in EntriesOf(t) : history[i].kind = "summary"}

EarlierOfKey(t) ==
    {u \in Tasks : /\ u < t
                   /\ task[u].key = task[t].key
                   /\ task[u].content \notin INTERRUPT_COMMANDS}

\* C26: a consumed message whose key has no earlier message still being
\* processed is free to start, whatever messages of other keys are doing:
\* it is chained on nothing, or on a settled message of its own key.
C26_OtherKeysNeverBlock ==
    \A t \in Tasks :
       /\ task[t].prev # 0 => task[task[t].prev].key = task[t].key
       /\ (task[t].pc = "chained" /\ \A u \in EarlierOfKey(t) : task[u].pc = "done")
             => PrevSettled(t)

\* The message of one key, consumed second, has completed and published
\* its reply while the earlier message of the other key is still in the
\* middle of its processing.
C26_Witness ==
    \E t1 \in Tasks, t2 \in Tasks :
       /\ t1 < t2
       /\ task[t1].key # task[t2].key
       /\ task[t1].content = "text" /\ task[t2].content = "text"
       /\ task[t1].pc = "stream"
       /\ task[t2].pc = "done"
       /\ \E i \in DOMAIN outbound : outbound[i].task = t2 /\ outbound[i].kind = "final"

\* C27: an interrupt command is processed from the moment it is consumed:
\* it is never chained on the tail of its key nor becomes that tail, and
\* no later message is chained on it.
C27_InterruptBypassesChain ==
    \A t \in Tasks :
       task[t].content \in INTERRUPT_COMMANDS =>
          /\ task[t].pc # "chained"
          /\ task[t].prev = 0
          /\ running[task[t].key] # t
          /\ \A u \in Tasks : task[u].prev # t

\* "/stop" has been answered while an earlier message of its key is being
\* streamed and a later one is still chained behind that message.
C27_Witness ==
    \E t1 \in Tasks, t2 \in Tasks, t3 \in Tasks :
       /\ t1 < t2 /\ t1 < t3
       /\ task[t1].key = task[t2].key /\ task[t1].key = task[t3].key
       /\ task[t1].pc = "stream"
       /\ task[t2].content = "/stop" /\ task[t2].pc = "done"
       /\ \E i \in DOMAIN outbound : outbound[i].task = t2
       /\ \A i \in DOMAIN outbound : outbound[i].task # t1
       /\ task[t3].pc = "chained" /\ task[t3].prev = t1

\* C28: when ensureSession runs after a trim, the key has no live SDK
\* session left, the one created is this task's and the recap handed to
\* its system prompt is the content of the retained tail; without a trim
\* no recap is handed over and a live SDK session of the key is reused.
C28_TrimRenewsHandle ==
    [][\A t \in Tasks :
          (task[t].pc = "ensure" /\ task'[t].pc = "append_user") =>
              LET key == task[t].key
              IN IF task[t].trimmed
                 THEN /\ handles[key] = 0
                      /\ handles'[key] = t
                      /\ task[t].recap = WithContent(sessions[key].messages)
                      /\ sessions[key].messages # <<>> => task[t].recap # <<>>
                 ELSE /\ task[t].recap = <<>>
                      /\ handles'[key] = IF handles[key] # 0 THEN handles[key] ELSE t]_vars

\* The second message of a key has trimmed the session while the SDK
\* session the first one created was live, and has created its own.
C28_Witness ==
    \E t1 \in Tasks, t2 \in Tasks :
       /\ t1 < t2
       /\ task[t1].key = task[t2].key
       /\ task[t1].pc = "done" /\ ~task[t1].threw /\ task[t1].content = "text"
       /\ task[t2].trimmed
       /\ task[t2].pc = "append_user"
       /\ handles[task[t2].key] = t2


\* The messages the outbound queue accepted for a channel adapter.
Accepted ==
    {outbound[i].msg : i \in {j \in DOMAIN outbound :
                                 /\ ~outbound[j].dropped
                                 /\ outbound[j].msg.channel # "system"}}

\* C29: before stop() is called dispatchLoop has not exited, whatever
\* sends have failed, and every accepted message has been passed to
\* send(), is the one in the loop's hands, or waits in the queue.
C29_SendFailureDoesNotHalt ==
    stops = 0 =>
       /\ dispPc.pc # "exited"
       /\ \A m \in Accepted :
             \/ \E i \in DOMAIN sent : sent[i] = m
             \/ dispPc.msg = m
             \/ \E i \in DOMAIN outq.buffer : outq.buffer[i] = m

\* A send has failed and a message published after the failed one has
\* been passed to send() since.
C29_Witness ==
    \E i \in DOMAIN sent, j \in DOMAIN sent :
       /\ i < j
       /\ sent[i].id \in failed
       /\ sent[j].id \notin failed
       /\ dispPc.pc = "waiting"

\* C30: when /new resets a session that has messages, its task has called
\* consolidate() on all of them and is back from consolidateWithTimeout
\* with the write of the outcome made (summary entry, memory, or fallback
\* entry); the reset leaves the key with no messages, lastConsolidated 0
\* and no live SDK session, and publishes the task's only reply.
C30_NewAwaitsThenClears ==
    [][\A t \in Tasks :
          (task[t].pc = "reset" /\ task'[t].pc = "done") =>
              LET key == task[t].key
                  local == task[t].local
              IN /\ task[t].content = "/new"
                 /\ IF sessions[key].messages # <<>>
                    THEN /\ task[t].enq > 0
                         /\ local.batch = sessions[key].messages
                         /\ t \notin QueuedCalls \cup StartedCalls \/ task[t].timedOut
                         /\ (task[t].timedOut \/ local.outcome = "reject")
                               => \E i \in EntriesOf(t) : history[i].kind = "fallback"
                         /\ local.result.hist => SummariesOf(t) # {}
                         /\ (local.result.hasMem /\ local.result.mem # {}
                             /\ local.result.mem # local.currentMemory)
                               => task[t].wrote
                    ELSE task[t].enq = 0
                 /\ sessions'[key].messages = <<>>
                 /\ sessions'[key].lastConsolidated = 0
                 /\ handles'[key] = 0
                 /\ \A i \in DOMAIN outbound : outbound[i].task # t
                 /\ outbound' = Append(outbound, Out(t, "cleared"))]_vars

\* /new has completed on a key whose earlier message had created an SDK
\* session, after a consolidation that timed out and wrote its fallback.
C30_Witness ==
    \E t1 \in Tasks, t2 \in Tasks :
       /\ t1 < t2
       /\ task[t1].key = task[t2].key
       /\ task[t1].content = "text" /\ ~task[t1].threw
       /\ task[t2].content = "/new" /\ task[t2].pc = "done"
       /\ task[t2].enq > 0 /\ task[t2].timedOut
       /\ \E i \in EntriesOf(t2) : history[i].kind = "fallback"
       /\ sessions[task[t2].key].messages = <<>>
       /\ handles[task[t2].key] = 0
       /\ \E i \in DOMAIN outbound : outbound[i] = Out(t2, "cleared")

(***************************************************************************)
(* Properties of the response parser (checked under SpecParse).            *)
(***************************************************************************)
PairsOf(text, key) == {i \in 1..Len(text) : IsPair(text[i]) /\ text[i].key = key}

\* The response is a fenced object holding both fields with text.
FencedBoth(text) ==
    /\ Len(text) = 5
    /\ text[1] = Fence /\ text[5] = Fence
    /\ JsonParses(SubSeq(text, 2, 4))
    /\ \E i \in 3..4 : text[i] = Pair("history_entry", "ok")
    /\ \E i \in 3..4 : text[i] = Pair("memory_update", "ok")

\* Tiers 1 and 2 fail on the response.
NotStructured(text) ==
    /\ ~JsonParses(StripFence(text))
    /\ ~JsonParses(BraceBlock(StripFence(text)))

\* C31 as stated: a fenced object with both fields yields both; a response
\* on which tiers 1 and 2 fail and which holds a history_entry pattern and
\* no memory_update pattern yields historyEntry alone.
C31_FieldsRecoveredIndependently ==
    parsed # NotParsed =>
       /\ FencedBoth(response) =>
             parsed.historyEntry = "text" /\ parsed.memoryUpdate = "text"
       /\ (/\ NotStructured(response)
           /\ PairsOf(response, "history_entry") # {}
           /\ PairsOf(response, "memory_update") = {})
             => parsed.historyEntry = "text" /\ parsed.memoryUpdate = "none"

\* C31, amended: the same, for a history_entry pattern whose first match
\* is a string literal JSON.parse accepts.
C31_ReadableFieldsRecoveredIndependently ==
    parsed # NotParsed =>
       /\ FencedBoth(response) =>
             parsed.historyEntry = "text" /\ parsed.memoryUpdate = "text"
       /\ (/\ NotStructured(response)
           /\ PairsOf(response, "history_entry") # {}
           /\ \A i \in PairsOf(response, "history_entry") :
                 (\A j \in PairsOf(response, "history_entry") : i <= j)
                    => response[i].lit = "ok"
           /\ PairsOf(response, "memory_update") = {})
             => parsed.historyEntry = "text" /\ parsed.memoryUpdate = "none"

\* A response that is no object and has no closed brace block, with a
\* history_entry pattern only, has been parsed to historyEntry alone.
C31_Witness ==
    /\ parsed # NotParsed
    /\ response = <<Prose, Open, Pair("history_entry", "ok"), Prose>>
    /\ parsed.historyEntry = "text"
    /\ parsed.memoryUpdate = "none"

(***************************************************************************)
(* Properties of the cron service (checked under SpecCron).                *)
(***************************************************************************)
\* C32: a job has at most one pending timer, every pending timer is the
\* one the timers map records for its job, and its job is listed and
\* enabled; no removed or disabled job has fired.
C32_OneTimerPerJob ==
    /\ \A id \in JobIds : Cardinality({h \in pending : h.job = id}) <= 1
    /\ \A h \in pending :
          /\ timers[h.job] = h
          /\ Listed(h.job) /\ cronJobs[h.job].enabled
    /\ \A i \in DOMAIN cronLog.fired :
          cronLog.fired[i].listed /\ cronLog.fired[i].enabled

(***************************************************************************)
(* Ownership of a session by the slot of its key (checked under SpecOrder).*)
(***************************************************************************)
\* The processMessage call of task t has started and not returned, and is
\* not an interrupt command: it holds the slot of its key.
Holder(t) ==
    /\ task[t].content \notin INTERRUPT_COMMANDS
    /\ task[t].pc \notin {"chained", "done"}

HoldersOf(k) == {t \in Tasks : task[t].key = k /\ Holder(t)}

\* C33: a key never has two started, unfinished processMessage calls that
\* mutate its session; every change of a key's session is made by a step of
\* the one call holding the key's slot; a step of a "/stop" call changes no
\* session.
C33_SessionMutatedBySlotHolderOnly ==
    [][/\ \A k \in Keys : Cardinality(HoldersOf(k)) <= 1
       /\ \A k \in Keys :
             sessions'[k] # sessions[k] =>
                \E t \in HoldersOf(k) : task'[t] # task[t]
       /\ \A t \in Tasks :
             task[t].content \in INTERRUPT_COMMANDS /\ task'[t] # task[t]
                => sessions' = sessions]_vars

\* A "/stop" has been answered while a message of its key, consumed before
\* it, is between its two appends, and a message of the other key is in
\* progress too.
C33_Witness ==
    \E t, s, u \in Tasks :
       /\ t < s
       /\ task[t].key = task[s].key /\ task[u].key # task[t].key
       /\ task[t].pc = "stream" /\ Holder(u)
       /\ task[s].content = "/stop" /\ task[s].pc = "done"

(***************************************************************************)
(* Ownership of the engine handle (checked under SpecReload).              *)
(***************************************************************************)
\* C34: while a processMessage call is between sending its message and the
\* end of its response stream, the SDK session of its key is still open and
\* in the handle map.
C34_HandleOwnedByTurnInFlight ==
    \A t \in Tasks : task[t].pc = "stream" => handles[task[t].key] # 0

(***************************************************************************)
(* Progress of the consolidation service (checked under SpecCallsLive).    *)
(***************************************************************************)
\* The promise of call c is pending: the call is queued or running.
Pending(c) == c \in QueuedCalls \cup StartedCalls

\* C35: every consolidate() call that is queued or running is eventually
\* settled; the step that settles a call changes no caller but its own and
\* starts the head of the queue, if there is one; and no call is queued
\* while the drain loop is not running.
C35_ConsolidationProgress ==
    /\ [](cqueue # <<>> => draining /\ inFlight # {})
    /\ [][\A c \in Tasks :
            Pending(c) /\ ~Pending(c)' =>
               /\ \A u \in Tasks \ {c} : task'[u] = task[u]
               /\ cqueue # <<>> =>
                     /\ cqueue' = Tail(cqueue)
                     /\ Head(cqueue).call \in StartedCalls']_vars
    /\ \A c \in 1..MaxCallMsgs : Pending(c) ~> ~Pending(c)

\* A summarization has just rejected, its caller is about to write the
\* fallback entry, and the call made after it is running.
C35_Witness ==
    \E c, u \in Tasks :
       /\ task[c].pc = "cwt_fallback" /\ task[c].local.outcome = "reject"
       /\ task[u].enq = task[c].enq + 1
       /\ u \in StartedCalls

(***************************************************************************)
(* The size of the working set (checked under SpecOrder, whose sessions    *)
(* start empty).                                                           *)
(***************************************************************************)
\* C36: a session never holds more than memoryWindow + 2 messages.
C36_BoundedWorkingSet ==
    \A k \in Keys : Len(sessions[k].messages) <= memoryWindow + 2

\* A session holds memoryWindow + 2 messages and the next message of its
\* key is trimming it, or has trimmed it and appended its user entry.
C36_Witness ==
    \/ \E t \in Tasks :
          /\ task[t].pc = "trim"
          /\ Len(sessions[task[t].key].messages) = memoryWindow + 2
    \/ \E t \in Tasks :
          /\ task[t].trimmed /\ task[t].pc = "stream"
          /\ Len(sessions[task[t].key].messages) = keepCount + 1

(***************************************************************************)
(* One log per key (checked under SpecKeys).                               *)
(***************************************************************************)
\* What a process started now would load for the key from its log.
Reloaded(key) ==
    [messages |-> Load(files[filePath(key)], Now).messages,
     lastConsolidated |-> Load(files[filePath(key)], Now).lastConsolidated]

\* C37: an append, clear or trimBefore of one key writes a file that is the
\* log of no other key, and leaves what a reload of any other key returns
\* unchanged.
C37_OneLogPerKey ==
    [][\A a \in StoreKeys, b \in StoreKeys :
          (/\ a # b
           /\ keyOp'.n # keyOp.n
           /\ keyOp'.key = a
           /\ keyOp'.op \in {"append", "clear", "trimBefore"})
             => /\ filePath(a) # filePath(b)
                /\ Reloaded(b)' = Reloaded(b)]_vars

(***************************************************************************)
(* processMessage throws (checked under SpecOrder).                        *)
(***************************************************************************)
\* The apologies published for task t.
Apologies(t) == {i \in DOMAIN outbound : outbound[i] = Out(t, "error")}

\* C38: a processMessage call that threw has published one apology for the
\* chat of its message and has settled, so that the message chained behind
\* it can run and the key's tail is not left pointing at it; a call that did
\* not throw has published none; mainLoop is waiting in consumeInbound().
C38_ThrowIsCaughtPerMessage ==
    /\ \A t \in Tasks :
          /\ Cardinality(Apologies(t)) = IF task[t].threw THEN 1 ELSE 0
          /\ task[t].threw =>
                /\ task[t].pc = "done"
                /\ running[task[t].key] # t
                /\ \A u \in Tasks : task[u].prev = t => PrevSettled(u)
    /\ (\E t \in Tasks : task[t].threw) =>
          mainPc = "waiting" /\ inbound.waiters = <<MainWaiter>>

\* A call threw, the message of the same key consumed after it has been
\* answered, and a message consumed after both is in progress.
C38_Witness ==
    \E t, u, v \in Tasks :
       /\ t < u /\ u < v
       /\ task[t].key = task[u].key
       /\ task[t].threw
       /\ task[u].pc = "done" /\ ~task[u].threw
       /\ task[u].content \notin INTERRUPT_COMMANDS
       /\ task[v].pc \notin {"chained", "done"}

(***************************************************************************)
(* The map of tails (checked under SpecOrder).                             *)
(***************************************************************************)
\* The chained messages of key k consumed so far, and the last of them.
ChainedOf(k) ==
    {t \in Tasks : task[t].key = k /\ task[t].content \notin INTERRUPT_COMMANDS}

Latest(k) ==
    IF ChainedOf(k) = {} THEN 0
    ELSE CHOOSE t \in ChainedOf(k) : \A u \in ChainedOf(k) : u <= t

\* C39: the map holds, for a key, the continuation chained last for it as
\* long as that continuation has not settled, and no entry otherwise; with
\* every consumed message processed the map is empty.
C39_TailMapCollectedExactly ==
    \A k \in Keys :
       running[k] = IF Latest(k) # 0 /\ task[Latest(k)].pc # "done"
                    THEN Latest(k) ELSE 0

\* A continuation has settled while a newer one of its key was chained
\* behind it: the entry of the key, the newer one, is kept.
C39_Witness ==
    \E t \in Tasks, u \in Tasks :
       /\ t < u
       /\ t \in ChainedOf(task[u].key) /\ u \in ChainedOf(task[u].key)
       /\ task[t].pc = "done"
       /\ task[u].pc = "chained"
       /\ running[task[u].key] = u

(***************************************************************************)
(* Order of delivery (checked under SpecDispatch).                         *)
(***************************************************************************)
\* The messages published so far, in publish order, the number of them the
\* loop is done with or has passed to send(), and those of a sequence that
\* go to an adapter.
PublishedMsgs == [i \in DOMAIN outbound |-> outbound[i].msg]

Handled ==
    Len(outbound) - Len(outq.buffer) - (IF dispPc.pc = "got" THEN 1 ELSE 0)

ForAdapter(msgs) ==
    LET Deliverable(m) == m.channel # "system" /\ m.channel \in Registered
    IN SelectSeq(msgs, Deliverable)

\* C40: the messages passed to send() are, in publish order, the messages
\* for a registered channel among those the loop has taken so far; a send in
\* flight is the last of them and the loop takes no message meanwhile; a
\* message for "system" or for a channel not in the map is passed over and
\* the loop does not exit.
C40_SendsInPublishOrder ==
    /\ dispPc.pc # "exited"
    /\ sent = ForAdapter(SubSeq(PublishedMsgs, 1, Handled))
    /\ dispPc.pc = "sending" =>
          /\ sent # <<>> /\ dispPc.msg = sent[Len(sent)]
          /\ outq.waiters = <<>>
    /\ outq.buffer = SubSeq(PublishedMsgs, Len(outbound) - Len(outq.buffer) + 1,
                            Len(outbound))

\* Two messages have been sent in publish order, the message published
\* between them, for a channel that is not in the map, was passed over, and
\* the loop waits for the next message.
C40_Witness ==
    /\ Len(sent) = 2
    /\ \E i \in DOMAIN outbound :
          /\ sent[1].id < outbound[i].msg.id /\ outbound[i].msg.id < sent[2].id
          /\ outbound[i].msg.channel \notin Registered \cup {"system"}
    /\ dispPc.pc = "waiting"
====
